---- MODULE Spec2Model ----
\* A model of the match-page extraction engine of the VLR.gg scraper
\* (src/match_details_scrapper.py, class MatchDetailsScraper).
\*
\* Texts are sequences of one-character strings, so that concatenation
\* (get_text), integer parsing (int) and comparison with the magic sentinel
\* string 'N/A' are computed the way the code computes them.
\* A markup element is a record [cls, text, kids]: its class attribute as
\* the sequence of its class tokens, its own text, and its child spans in
\* document order.
EXTENDS Integers, Sequences, FiniteSets, TLC

VARIABLES
    cell,      \* the stat cell (a <td>) handed to the side-stat extraction
    cellOut,   \* its three outputs [all, attack, defense]
    row,       \* the cells (<td>) of the table row handed to the row parser
    style,     \* is_overview_style of that call
    rowOut,    \* the outcome of _parse_player_row_stats on that row
    sections,  \* the statistics sections of the document handed to _extract_maps_data
    mapsOut,   \* the outcome of _extract_maps_data on those sections
    page,      \* the document of a get_match_details run
    url,       \* the match URL of that run
    clock,     \* the wall clock read by datetime.now()
    results,   \* the calls of get_match_details made so far, with what they returned
    match_urls,        \* the list handed to scrape_multiple_matches
    progress_callback, \* whether that call was given a progress callback
    pos,               \* the loop index i of that call (from 0)
    detailed_matches,  \* its list of results so far
    iterations,        \* the passes of its loop so far: what each did
    returned,          \* what the call returned: <<>> before, <<list>> after
    hdr,       \* the header region of the document handed to _extract_match_header_info
    hdrOut,    \* the header_info dict it returned
    overallOut, \* the outcome of _extract_overall_player_stats on `sections`
    teams,     \* the two team names handed to the section parsers
    ids,       \* what the three match-id extractors answer for `url`
    raw,       \* the value handed to the value normalizers
    normOut,   \* what each of the normalizers did with it
    inst,      \* the attributes of a MatchDetailsScraper instance shared by several calls
    calls,     \* those calls of get_match_details: locals and position of each
    db,        \* the detailed_matches table of a VLRDatabase
    saves      \* the calls of save_detailed_match made so far

\* The variables of get_match_details and its parts.
parts == <<cell, cellOut, row, style, rowOut, sections, mapsOut, page, url, clock, results>>

\* The variables of a batch run.
batch == <<match_urls, progress_callback, pos, detailed_matches, iterations, returned>>

\* The variables the actions on the parts of get_match_details leave alone.
\* The variables of the value normalizers.
extras == <<raw, normOut, inst, calls, db, saves>>

others == <<batch, hdr, hdrOut, overallOut, teams, ids, extras>>

vars == <<parts, others>>

-----------------------------------------------------------------------------
\* Bounds of the model.

\* Spans (at any depth) in one stat cell.
MaxNodes == 2

\* Cells (<td>) in one table row handed to the row parser on its own.
MaxCells == 14

\* Sections, score elements and tables in the document handed to
\* _extract_maps_data on its own.
MaxItems == 4

\* Calls of get_match_details in one run, and the readings of the clock.
MaxCalls == 2
MaxClock == 2

-----------------------------------------------------------------------------
\* Texts and the sentinel.

\* The magic string 'N/A' the code uses for "absent".
NA == <<"N", "/", "A">>

NoText == <<>>

Range(s) == {s[i] : i \in 1..Len(s)}

\* Python's empty dict.
EmptyDict == [k \in {} |-> k]

\* Python's None where a text may stand (no text is a sequence of this shape).
None == <<"None">>

-----------------------------------------------------------------------------
\* Markup elements and the BeautifulSoup calls the code makes on them.

SideBoth == <<"side", "mod-side", "mod-both">>
SideT    == <<"side", "mod-side", "mod-t">>
SideCt   == <<"side", "mod-side", "mod-ct">>
ModBoth  == <<"mod-both">>
ModT     == <<"mod-t">>
ModCt    == <<"mod-ct">>
StatsSq  == <<"stats-sq">>

\* class_='a b c' matches the class attribute as a whole string; class_='a'
\* matches any element that has the class a among its classes.
MatchesClass(el, sel) ==
    IF Len(sel) = 1 THEN sel[1] \in Range(el.cls) ELSE el.cls = sel

\* The first of two search results that found an element.
FirstFound(a, b) == IF a # <<>> THEN a ELSE b

\* find('span', class_=sel) among the elements `kids` and their descendants,
\* in document order: <<>> is None, <<el>> the element found.
RECURSIVE FindIn(_, _)
FindIn(kids, sel) ==
    IF kids = <<>> THEN <<>>
    ELSE IF MatchesClass(Head(kids), sel) THEN <<Head(kids)>>
    ELSE FirstFound(FindIn(Head(kids).kids, sel), FindIn(Tail(kids), sel))

Find(el, sel) == FindIn(el.kids, sel)

\* get_text(strip=True): the element's own text followed by the text of its
\* descendants, in document order (no text of the model carries white space).
RECURSIVE GetTextOfAll(_)
GetText(el) == el.text \o GetTextOfAll(el.kids)
GetTextOfAll(kids) ==
    IF kids = <<>> THEN <<>> ELSE GetText(Head(kids)) \o GetTextOfAll(Tail(kids))

\* _safe_get_text(element, default): a Tag is always truthy, None is not.
SafeGetText(found, default) ==
    IF found # <<>> THEN GetText(found[1]) ELSE default

-----------------------------------------------------------------------------
\* The side-stat extraction of one stat cell (the body of the loop of
\* _parse_player_row_stats).

\* The condition under which the next strategy for the combined value runs.
StillMissing(v) == v = NA \/ v = NoText

\* Strategy (a): <span class="side mod-side mod-both">.
AllSidesSpecific(stat_cell, v) ==
    SafeGetText(Find(stat_cell, SideBoth), v)

\* Strategy (b) run whether or not strategy (a) produced a value.
AllSidesFallback1Always(stat_cell, v) ==
    SafeGetText(Find(stat_cell, ModBoth), v)

\* Strategy (b): <span class="mod-both">.
AllSidesFallback1(stat_cell, v) ==
    IF StillMissing(v) THEN SafeGetText(Find(stat_cell, ModBoth), v) ELSE v

\* The text of the statistic-square wrapper found, unless none was found or
\* it holds a T or a CT span.
SqText(stats_sq_span, v) ==
    IF /\ stats_sq_span # <<>>
       /\ ~ (\/ Find(stats_sq_span[1], ModT) # <<>>
             \/ Find(stats_sq_span[1], ModCt) # <<>>)
    THEN SafeGetText(stats_sq_span, NA) ELSE v

\* Strategy (c): <span class="stats-sq"> holding no T/CT span.
AllSidesFallback2(stat_cell, v) ==
    IF StillMissing(v) THEN SqText(Find(stat_cell, StatsSq), v) ELSE v

\* Strategy (d) without its guard against T/CT spans.
AllSidesFallback3Unguarded(stat_cell, v) ==
    IF StillMissing(v) THEN GetText(stat_cell) ELSE v

\* Strategy (d): the text of the cell when it has no T/CT span.
AllSidesFallback3(stat_cell, v) ==
    IF /\ StillMissing(v)
       /\ ~ (Find(stat_cell, ModT) # <<>> \/ Find(stat_cell, ModCt) # <<>>)
    THEN GetText(stat_cell) ELSE v

\* The final `"N/A" if value == "" else value`.
OrNA(v) == IF v = NoText THEN NA ELSE v

StatValueAllSides(stat_cell) ==
    OrNA(AllSidesFallback3(stat_cell,
           AllSidesFallback2(stat_cell,
             AllSidesFallback1(stat_cell,
               AllSidesSpecific(stat_cell, NA)))))

\* A side value that tries the bare marker before the specific class string.
SideValueBareFirst(stat_cell, specific, bare) ==
    OrNA(SafeGetText(FirstFound(Find(stat_cell, bare), Find(stat_cell, specific)), NA))

\* A side value that falls back to the both-marker span when there is no
\* span of the side.
SideValueOrBoth(stat_cell, specific, bare) ==
    OrNA(SafeGetText(FirstFound(Find(stat_cell, specific),
                                FirstFound(Find(stat_cell, bare),
                                           Find(stat_cell, ModBoth))), NA))

\* The attack (mod-t) and the defense (mod-ct) value.
SideValue(stat_cell, specific, bare) ==
    OrNA(SafeGetText(FirstFound(Find(stat_cell, specific), Find(stat_cell, bare)), NA))

StatValueAttack(stat_cell) == SideValue(stat_cell, SideT, ModT)

\* The defense value with the attack marker left in its fallback.
StatValueDefenseOrT(stat_cell) ==
    OrNA(SafeGetText(FirstFound(Find(stat_cell, SideCt), Find(stat_cell, ModT)), NA))

StatValueDefense(stat_cell) == SideValue(stat_cell, SideCt, ModCt)

ParseStatCell(stat_cell) ==
    [all     |-> StatValueAllSides(stat_cell),
     attack  |-> StatValueAttack(stat_cell),
     defense |-> StatValueDefense(stat_cell)]

-----------------------------------------------------------------------------
\* Outcomes of a call: a returned value, or a raised exception.

Return(v) == [ok |-> TRUE, val |-> v]
Raise(e)  == [ok |-> FALSE, exc |-> e]

-----------------------------------------------------------------------------
\* _parse_player_row_stats and _parse_player_stats_table.

StatKeys ==
    <<"rating", "acs", "k", "d", "a", "kd_diff", "kast", "adr", "hs_percent",
      "fk", "fd", "fk_fd_diff">>

OverviewStatStart == 2
PerMapStatStart == 1

StatStartIndex(is_overview_style) ==
    IF is_overview_style THEN OverviewStatStart ELSE PerMapStatStart

\* The three sentinels written for a key whose cell the row does not have.
MissingStat == [all |-> NA, attack |-> NA, defense |-> NA]

\* One pass of the loop over enumerate(stat_keys): the i-th key (from 0) is
\* read from cells[stat_start_index + i] (Python indexes from 0, the model's
\* sequences from 1) or written as the sentinel.
StatAt(cells, stat_start_index, i) ==
    LET cell_index == stat_start_index + i
    IN  IF cell_index < Len(cells)
        THEN ParseStatCell(cells[cell_index + 1])
        ELSE MissingStat

\* The three dicts with key_name set to the values read.
PutStat(before, key_name, st) ==
    [stats_all_sides |-> (key_name :> st.all) @@ before.stats_all_sides,
     stats_attack    |-> (key_name :> st.attack) @@ before.stats_attack,
     stats_defense   |-> (key_name :> st.defense) @@ before.stats_defense]

\* The dicts the loop has filled after its first n passes.
RECURSIVE StatLoop(_, _, _)
StatLoop(cells, stat_start_index, n) ==
    IF n = 0
    THEN [stats_all_sides |-> EmptyDict, stats_attack |-> EmptyDict,
          stats_defense |-> EmptyDict]
    ELSE PutStat(StatLoop(cells, stat_start_index, n - 1), StatKeys[n],
                 StatAt(cells, stat_start_index, n - 1))

Opt(found, default) == IF found # <<>> THEN found[1] ELSE default

\* str.lower() on the letters the model's texts are written with.
LowerChar(ch) ==
    CASE ch = "F" -> "f" [] ch = "I" -> "i" [] ch = "N" -> "n"
      [] ch = "A" -> "a" [] ch = "L" -> "l" [] ch = "B" -> "b"
      [] ch = "O" -> "o" [] ch = "E" -> "e" [] ch = "J" -> "j"
      [] ch = "K" -> "k" [] ch = "T" -> "t" [] ch = "X" -> "x"
      [] ch = "Y" -> "y" [] OTHER -> ch

Lower(text) == [i \in 1..Len(text) |-> LowerChar(text[i])]

\* pat in text.
Contains(text, pat) ==
    \E i \in 1..(Len(text) - Len(pat) + 1) : SubSeq(text, i, i + Len(pat) - 1) = pat

\* Agent resolution. An icon (<img>) is an element with three more fields,
\* alt, title and src: <<>> for an attribute the tag does not have, else
\* <<its value>>.

IsImg(el) == "src" \in DOMAIN el

\* The descendants of the elements `kids`, in document order.
RECURSIVE Descendants(_)
Descendants(kids) ==
    IF kids = <<>> THEN <<>>
    ELSE <<Head(kids)>> \o Descendants(Head(kids).kids) \o Descendants(Tail(kids))

\* find_all under el of the elements that satisfy P; First is find.
FindAll(el, P(_)) == SelectSeq(Descendants(el.kids), P)

First(found) == IF found = <<>> THEN <<>> ELSE <<found[1]>>

\* span with class_='mod-agent', img with class_='mod-agent'.
IsAgentSpan(el) == ~IsImg(el) /\ "mod-agent" \in Range(el.cls)
IsAgentImg(el) == IsImg(el) /\ "mod-agent" \in Range(el.cls)

AgentsDir ==
    <<"/", "i", "m", "g", "/", "v", "l", "r", "/", "g", "a", "m", "e", "/",
      "a", "g", "e", "n", "t", "s", "/">>

AgentsSep == <<"/", "a", "g", "e", "n", "t", "s", "/">>

\* An img whose src contains the path of the agent images.
HasAgentSrc(el) == IsImg(el) /\ Contains(Opt(el.src, NoText), AgentsDir)

\* str.strip() on texts whose only white space is the blank.
RECURSIVE StripLeft(_)
StripLeft(text) ==
    IF text # <<>> /\ Head(text) = " " THEN StripLeft(Tail(text)) ELSE text

RECURSIVE StripRight(_)
StripRight(text) ==
    IF text # <<>> /\ text[Len(text)] = " "
    THEN StripRight(SubSeq(text, 1, Len(text) - 1)) ELSE text

StripBlanks(text) == StripRight(StripLeft(text))

\* text.split(sep)[-1]: what follows the last occurrence of sep.
RECURSIVE AfterLast(_, _)
AfterLast(text, sep) ==
    IF Len(text) < Len(sep) THEN text
    ELSE IF SubSeq(text, Len(text) - Len(sep) + 1, Len(text)) = sep THEN <<>>
    ELSE AfterLast(SubSeq(text, 1, Len(text) - 1), sep) \o <<text[Len(text)]>>

\* text.split('.')[0]: what precedes the first dot.
RECURSIVE BeforeDot(_)
BeforeDot(text) ==
    IF text = <<>> \/ Head(text) = "." THEN <<>>
    ELSE <<Head(text)>> \o BeforeDot(Tail(text))

\* text.replace('-', ' ').
DashesToBlanks(text) == [i \in 1..Len(text) |-> IF text[i] = "-" THEN " " ELSE text[i]]

IsLetter(ch) ==
    ch \in {"a", "b", "e", "f", "i", "j", "k", "l", "n", "o", "t", "x", "y",
            "A", "B", "E", "F", "I", "J", "K", "L", "N", "O", "T", "X", "Y"}

UpperChar(ch) ==
    CASE ch = "a" -> "A" [] ch = "b" -> "B" [] ch = "e" -> "E" [] ch = "f" -> "F"
      [] ch = "i" -> "I"
      [] ch = "j" -> "J" [] ch = "k" -> "K" [] ch = "l" -> "L" [] ch = "n" -> "N"
      [] ch = "o" -> "O" [] ch = "t" -> "T" [] ch = "x" -> "X" [] ch = "y" -> "Y"
      [] OTHER -> ch

\* str.title() on the letters the model's paths are written with: a letter
\* that follows no letter is made upper case, the other letters lower case.
Title(text) ==
    [i \in 1..Len(text) |->
        IF i = 1 \/ ~IsLetter(text[i - 1]) THEN UpperChar(text[i])
        ELSE LowerChar(text[i])]

MaxAgentNameLen == 20

\* The validation of an agent name candidate.
CandidateOk(agent_name_candidate) ==
    /\ agent_name_candidate # NoText
    /\ Len(agent_name_candidate) < MaxAgentNameLen
    /\ "/" \notin Range(agent_name_candidate)

\* alt, or title when alt is missing or empty; stripped.
AgentNameCandidate(img) ==
    StripBlanks(IF Opt(img.alt, NoText) = NoText THEN Opt(img.title, NoText)
                ELSE Opt(img.alt, NoText))

\* The name extracted from a file name under the agents path, if it is not
\* empty and shorter than 20 characters.
NameFromFile(extracted_from_src, agent) ==
    IF extracted_from_src # NoText /\ Len(extracted_from_src) < MaxAgentNameLen
    THEN Title(extracted_from_src) ELSE agent

\* The derivation of the name from the src attribute.
NameFromSrc(img_src, agent) ==
    IF Contains(img_src, AgentsDir)
    THEN NameFromFile(DashesToBlanks(BeforeDot(AfterLast(img_src, AgentsSep))), agent)
    ELSE agent

\* player_data['agent'] once an icon has been chosen.
AgentOfImg(img) ==
    IF CandidateOk(AgentNameCandidate(img)) THEN AgentNameCandidate(img)
    ELSE NameFromSrc(Opt(img.src, NoText), NA)

\* The img of the agent-badge wrapper found, if there is a wrapper.
ImgOfSpan(agent_span_mod_agent) ==
    IF agent_span_mod_agent = <<>> THEN <<>>
    ELSE First(FindAll(agent_span_mod_agent[1], IsImg))

\* An icon choice that looks for the agent class before the wrapper.
AgentImgTagClassFirst(player_cell) ==
    FirstFound(First(FindAll(player_cell, IsAgentImg)),
               FirstFound(ImgOfSpan(First(FindAll(player_cell, IsAgentSpan))),
                          First(FindAll(player_cell, HasAgentSrc))))

\* agent_img_tag after the three priorities (a Tag is always truthy).
AgentImgTag(player_cell) ==
    FirstFound(ImgOfSpan(First(FindAll(player_cell, IsAgentSpan))),
               FirstFound(First(FindAll(player_cell, IsAgentImg)),
                          First(FindAll(player_cell, HasAgentSrc))))

AgentOfTag(agent_img_tag) ==
    IF agent_img_tag # <<>> THEN AgentOfImg(agent_img_tag[1]) ELSE NA

\* Per-map style: agent, then agents as the list of it unless it is 'N/A'.
PerMapResolved(agent) ==
    [agent |-> agent, agents |-> IF agent # NA THEN <<agent>> ELSE <<>>]

\* Overview style: the first img of every span.mod-agent that has one.
RECURSIVE ImgsOfSpans(_)
ImgsOfSpans(agent_spans) ==
    IF agent_spans = <<>> THEN <<>>
    ELSE First(FindAll(Head(agent_spans), IsImg)) \o ImgsOfSpans(Tail(agent_spans))

HasAlt(img) == img.alt # <<>>
HasTitle(img) == img.title # <<>>

Alts(agent_imgs) ==
    [k \in 1..Len(SelectSeq(agent_imgs, HasAlt)) |-> SelectSeq(agent_imgs, HasAlt)[k].alt[1]]

Titles(agent_imgs) ==
    [k \in 1..Len(SelectSeq(agent_imgs, HasTitle)) |->
        SelectSeq(agent_imgs, HasTitle)[k].title[1]]

\* The alt texts, or the title texts when there is no alt text.
OverviewAgents(agent_imgs) ==
    IF Alts(agent_imgs) # <<>> THEN Alts(agent_imgs) ELSE Titles(agent_imgs)

OverviewResolved(agents) ==
    [agents |-> agents, agent |-> IF agents # <<>> THEN agents[1] ELSE NA]

ResolveAgents(cells, is_overview_style) ==
    IF is_overview_style
    THEN OverviewResolved(OverviewAgents(ImgsOfSpans(FindAll(cells[2], IsAgentSpan))))
    ELSE PerMapResolved(AgentOfTag(AgentImgTag(cells[1])))

\* The player_data dict of a row whose stats have been read.
PlayerData(team_name, player_cell, resolved, stats) ==
    [team_name       |-> team_name,
     player_id       |-> None,
     player_name     |-> SafeGetText(<<>>, GetText(player_cell)),
     agents          |-> resolved.agents,
     agent           |-> resolved.agent,
     stats_all_sides |-> stats.stats_all_sides,
     stats_attack    |-> stats.stats_attack,
     stats_defense   |-> stats.stats_defense]

\* The rows of the model carry no player anchor: the player name is the text
\* of the first cell, and player_id stays None.
ParsePlayerRowStats(cells, is_overview_style, team_name) ==
    IF Len(cells) = 0 THEN Raise("IndexError")           \* cells[0]
    ELSE IF is_overview_style /\ Len(cells) < 2
    THEN Raise("IndexError")                             \* cells[1]
    ELSE Return(PlayerData(team_name, cells[1],
                           ResolveAgents(cells, is_overview_style),
                           StatLoop(cells, StatStartIndex(is_overview_style),
                                    Len(StatKeys))))

\* A list outcome from the outcome of its first element and of its rest.
Cons(first, rest) ==
    IF ~first.ok THEN first
    ELSE IF ~rest.ok THEN rest
    ELSE Return(<<first.val>> \o rest.val)

\* _parse_player_stats_table: the rows of the table's <tbody>, parsed in
\* order; the first row that raises ends the call. A table is a record
\* [tbody, rows].
RECURSIVE ParseRows(_, _, _)
ParseRows(stat_rows, is_overview_style, team_name) ==
    IF stat_rows = <<>> THEN Return(<<>>)
    ELSE Cons(ParsePlayerRowStats(Head(stat_rows), is_overview_style, team_name),
              ParseRows(Tail(stat_rows), is_overview_style, team_name))

ParsePlayerStatsTable(table_soup, is_overview_style, team_name) ==
    ParseRows(IF table_soup.tbody THEN table_soup.rows ELSE <<>>,
              is_overview_style, team_name)

-----------------------------------------------------------------------------
\* Python's int() on a text: an optional sign and one or more digits (the
\* texts of the model carry no white space and no underscore).

IsDigit(ch) == ch \in {"0", "1", "2", "3", "4", "5", "6", "7", "8", "9"}

DigitValue(ch) ==
    CASE ch = "0" -> 0 [] ch = "1" -> 1 [] ch = "2" -> 2 [] ch = "3" -> 3
      [] ch = "4" -> 4 [] ch = "5" -> 5 [] ch = "6" -> 6 [] ch = "7" -> 7
      [] ch = "8" -> 8 [] ch = "9" -> 9

RECURSIVE DigitsValue(_)
DigitsValue(ds) ==
    IF ds = <<>> THEN 0
    ELSE 10 * DigitsValue(SubSeq(ds, 1, Len(ds) - 1)) + DigitValue(ds[Len(ds)])

ParseInt(text) ==
    LET signed == text # <<>> /\ text[1] \in {"+", "-"}
        digits == IF signed THEN Tail(text) ELSE text
    IN  IF digits # <<>> /\ \A i \in 1..Len(digits) : IsDigit(digits[i])
        THEN Return(IF signed /\ text[1] = "-"
                    THEN 0 - DigitsValue(digits) ELSE DigitsValue(digits))
        ELSE Raise("ValueError")

-----------------------------------------------------------------------------
\* _extract_maps_data. A statistics section (div.vm-stats-game) is a record
\*   game_id  its data-game-id attribute ("" when it has none),
\*   header   whether it has a div.vm-stats-game-header,
\*   map      whether that header has a div.map,
\*   name     the map-name span: <<>> when absent, else <<its own text>>,
\*   picked   the class of the span nested in it: "none", "picked mod-1",
\*            "picked mod-2" or "picked" (its text is "PICK"),
\*   duration the div.map-duration: <<>> when absent, else <<its text>>,
\*   scores   the texts of the header's div.score elements, in order,
\*   tables   the section's stats tables, in order.

Draw    == <<"D", "r", "a", "w">>
Decider == <<"D", "e", "c", "i", "d", "e", "r">>
PickText == <<"P", "I", "C", "K">>

\* str.replace(pat, ''), pat not empty.
RECURSIVE Remove(_, _)
Remove(text, pat) ==
    IF Len(text) < Len(pat) THEN text
    ELSE IF SubSeq(text, 1, Len(pat)) = pat
    THEN Remove(SubSeq(text, Len(pat) + 1, Len(text)), pat)
    ELSE <<Head(text)>> \o Remove(Tail(text), pat)

MapName(sec) ==
    LET span_text == IF sec.name = <<>> THEN NA
                     ELSE sec.name[1] \o (IF sec.picked = "none" THEN <<>> ELSE PickText)
    IN  Remove(span_text, PickText)

PickedBy(sec, team1_name_overall, team2_name_overall) ==
    IF sec.name = <<>> THEN NA
    ELSE IF sec.picked = "picked mod-1" THEN team1_name_overall
    ELSE IF sec.picked = "picked mod-2" THEN team2_name_overall
    ELSE Decider

\* The winner derived from the two map scores.
MapWinner(team1_score_map, team2_score_map, team1_name_overall, team2_name_overall) ==
    IF team1_score_map > team2_score_map THEN team1_name_overall
    ELSE IF team2_score_map > team1_score_map THEN team2_name_overall
    ELSE Draw

\* The scores and the winner from the outcomes of the two int() calls.
ScoresOf(s1, s2, team1_name_overall, team2_name_overall) ==
    IF ~s1.ok THEN s1
    ELSE IF ~s2.ok THEN s2
    ELSE Return([team1_score_map |-> s1.val,
                 team2_score_map |-> s2.val,
                 winner_team_name |->
                     MapWinner(s1.val, s2.val,
                               team1_name_overall, team2_name_overall)])

\* The score part of a map entry: both scores and the winner, 0/0/'N/A' when
\* the header has fewer than two score elements; int() may raise.
MapScores(scores, team1_name_overall, team2_name_overall) ==
    IF Len(scores) >= 2
    THEN ScoresOf(ParseInt(scores[1]), ParseInt(scores[2]),
                  team1_name_overall, team2_name_overall)
    ELSE Return([team1_score_map |-> 0, team2_score_map |-> 0,
                 winner_team_name |-> NA])

\* The dict {team1: [], team2: []} after the first of n tables has been
\* stored under team1's name and the second under team2's.
StatsByTeam(n, first, second, team1_name_overall, team2_name_overall) ==
    IF ~first.ok THEN first
    ELSE IF ~second.ok THEN second
    ELSE Return([t \in {team1_name_overall, team2_name_overall} |->
                    IF n >= 2 /\ t = team2_name_overall THEN second.val
                    ELSE IF n >= 1 /\ t = team1_name_overall THEN first.val
                    ELSE <<>>])

\* The player_stats dict of a section: {team1: [], team2: []}, then the first
\* table stored under team1's name and the second under team2's.
SectionPlayerStats(tables, is_overview_style, team1_name_overall, team2_name_overall) ==
    StatsByTeam(Len(tables),
                IF Len(tables) >= 1
                THEN ParsePlayerStatsTable(tables[1], is_overview_style, team1_name_overall)
                ELSE Return(<<>>),
                IF Len(tables) >= 2
                THEN ParsePlayerStatsTable(tables[2], is_overview_style, team2_name_overall)
                ELSE Return(<<>>),
                team1_name_overall, team2_name_overall)

\* One pass of the loop over enumerate(map_sections): "skip" for a section
\* the loop continues past, else the map entry or the exception raised.
Skip == [ok |-> TRUE, skip |-> TRUE]

\* The current_map_data dict of the i-th section (from 0), given the outcome
\* of reading its scores and of parsing its tables.
MapEntry(map_section_soup, i, sc, ps, team1_name_overall, team2_name_overall) ==
    IF ~sc.ok THEN sc
    ELSE IF ~ps.ok THEN ps
    ELSE Return(
        [map_order        |-> i + 1,
         player_stats     |-> ps.val,
         map_name         |-> MapName(map_section_soup),
         map_duration     |-> Opt(map_section_soup.duration, NA),
         picked_by        |-> PickedBy(map_section_soup,
                                       team1_name_overall, team2_name_overall),
         team1_score_map  |-> sc.val.team1_score_map,
         team2_score_map  |-> sc.val.team2_score_map,
         winner_team_name |-> sc.val.winner_team_name])

MapData(map_section_soup, i, team1_name_overall, team2_name_overall) ==
    IF ~map_section_soup.header THEN Skip
    ELSE IF ~map_section_soup.map THEN Skip
    ELSE MapEntry(map_section_soup, i,
                  MapScores(map_section_soup.scores,
                            team1_name_overall, team2_name_overall),
                  SectionPlayerStats(map_section_soup.tables, FALSE,
                                     team1_name_overall, team2_name_overall),
                  team1_name_overall, team2_name_overall)

\* A selection that takes every section with a data-game-id.
IsMapSectionAny(sec) == sec.game_id # ""

\* select('div.vm-stats-container > div.vm-stats-game[data-game-id]
\*         :not([data-game-id="all"])').
IsMapSection(sec) == sec.game_id # "" /\ sec.game_id # "all"

MapSections(secs) == SelectSeq(secs, IsMapSection)

\* The loop from its i-th pass (from 0) on, maps_data_list being `done`.
RECURSIVE MapsLoop(_, _, _, _, _)
RECURSIVE AfterPass(_, _, _, _, _, _)
MapsLoop(map_sections, i, done, team1_name_overall, team2_name_overall) ==
    IF i >= Len(map_sections) THEN Return(done)
    ELSE AfterPass(MapData(map_sections[i + 1], i,
                           team1_name_overall, team2_name_overall),
                   map_sections, i, done, team1_name_overall, team2_name_overall)

\* The rest of the loop once its i-th pass has had the outcome m.
AfterPass(m, map_sections, i, done, team1_name_overall, team2_name_overall) ==
    IF ~m.ok THEN m
    ELSE MapsLoop(map_sections, i + 1,
                  IF m = Skip THEN done ELSE Append(done, m.val),
                  team1_name_overall, team2_name_overall)

ExtractMapsData(soup, team1_name_overall, team2_name_overall) ==
    MapsLoop(MapSections(soup.sections), 0, <<>>, team1_name_overall, team2_name_overall)

\* select_one('div.vm-stats-game[data-game-id="all"]') takes the first of
\* these.
IsAllSection(sec) == sec.game_id = "all"

AllSections(secs) == SelectSeq(secs, IsAllSection)

\* _extract_overall_player_stats: the first section whose data-game-id is
\* "all", its tables parsed in overview style.
ExtractOverallPlayerStats(soup, team1_name_overall, team2_name_overall) ==
    IF AllSections(soup.sections) # <<>>
    THEN SectionPlayerStats(AllSections(soup.sections)[1].tables, TRUE,
                            team1_name_overall, team2_name_overall)
    ELSE Return([t \in {team1_name_overall, team2_name_overall} |-> <<>>])

-----------------------------------------------------------------------------
\* _extract_match_header_info. The header region of a document is a record
\*   event          the texts of the divs nested in the event link's first div,
\*   date           the data-utc-ts attribute: <<>> when absent, else <<text>>,
\*   patch          the italic note of the date container, likewise,
\*   team1, team2   the div.wf-title-med of the mod-1 and mod-2 team links,
\*   score_spans    the spans of the js-spoiler score: records [text, winner],
\*   notes          the texts of the div.match-header-vs-note elements,
\*   pick_note      the div.match-header-note, <<>> when absent,
\*   fallback_names the texts matched by
\*                  'div.match-header-link-name .wf-title-med'.

FinalText == <<"f", "i", "n", "a", "l">>

\* Overall scores that are always assigned in document order.
OverallScoresInOrder(scores) ==
    IF Len(scores) = 3 /\ ParseInt(scores[1].text).ok /\ ParseInt(scores[3].text).ok
    THEN [team1_score_overall |-> ParseInt(scores[1].text).val,
          team2_score_overall |-> ParseInt(scores[3].text).val]
    ELSE [team1_score_overall |-> 0, team2_score_overall |-> 0]

\* The two overall scores: 0 and 0 unless there are exactly three spans
\* whose first and third texts int() parses.
OverallScores(scores) ==
    LET zero == [team1_score_overall |-> 0, team2_score_overall |-> 0]
    IN  IF Len(scores) = 3
        THEN LET s1 == ParseInt(scores[1].text)
                 s2 == ParseInt(scores[3].text)
             IN  IF ~s1.ok \/ ~s2.ok THEN zero     \* except ValueError: pass
                 ELSE IF scores[1].winner
                 THEN [team1_score_overall |-> s1.val, team2_score_overall |-> s2.val]
                 ELSE IF scores[3].winner
                 THEN [team1_score_overall |-> s2.val, team2_score_overall |-> s1.val]
                 ELSE [team1_score_overall |-> s1.val, team2_score_overall |-> s2.val]
        ELSE zero

MatchFormat(format_tag_elements) ==
    IF Len(format_tag_elements) > 1 THEN format_tag_elements[2]
    ELSE IF /\ Len(format_tag_elements) = 1
            /\ ~Contains(Lower(format_tag_elements[1]), FinalText)
    THEN format_tag_elements[1]
    ELSE NA

ExtractMatchHeaderInfo(soup) ==
    LET h == soup.header
        sc == OverallScores(h.score_spans)
    IN  [event_name          |-> IF Len(h.event) > 0 THEN h.event[1] ELSE NA,
         event_stage         |-> IF Len(h.event) > 1 THEN h.event[2] ELSE NA,
         match_date_utc      |-> Opt(h.date, NA),
         patch               |-> Opt(h.patch, NA),
         team1_name          |-> Opt(h.team1, NA),
         team2_name          |-> Opt(h.team2, NA),
         team1_score_overall |-> sc.team1_score_overall,
         team2_score_overall |-> sc.team2_score_overall,
         match_format        |-> MatchFormat(h.notes),
         map_picks_bans_note |-> Opt(h.pick_note, NA)]

-----------------------------------------------------------------------------
\* _extract_match_id: re.search(r'/(\d+)/', url), the leftmost match.

\* The length of the run of digits of url that starts at position i.
RECURSIVE DigitRun(_, _)
DigitRun(text, i) ==
    IF i <= Len(text) /\ IsDigit(text[i]) THEN 1 + DigitRun(text, i + 1) ELSE 0

\* A search for r'/(\d+)', without the closing slash.
MatchesIdAtOpen(text, i) ==
    /\ text[i] = "/"
    /\ DigitRun(text, i + 1) >= 1

MatchesIdAt(text, i) ==
    /\ text[i] = "/"
    /\ DigitRun(text, i + 1) >= 1
    /\ i + DigitRun(text, i + 1) + 1 <= Len(text)
    /\ text[i + DigitRun(text, i + 1) + 1] = "/"

\* re.search(r'/(\d+)/', text): <<>> when there is no match, else <<group(1)>>
\* of the leftmost match.
ReSearchId(text) ==
    LET I == {i \in 1..Len(text) : MatchesIdAt(text, i)}
    IN  IF I = {} THEN <<>>
        ELSE LET i == CHOOSE k \in I : \A j \in I : k <= j
             IN  <<SubSeq(text, i + 1, i + DigitRun(text, i + 1))>>

ExtractMatchId(match_url) == Opt(ReSearchId(match_url), None)

-----------------------------------------------------------------------------
\* get_match_details. Its html_content argument is None, the empty string,
\* or a document (BeautifulSoup's parse of a non-empty string); `response` is
\* the outcome of requests.get(...).raise_for_status() should the call fetch
\* the page itself; `now` is what datetime.now() reads.

NoHtml == [html |-> "None"]
EmptyHtml == [html |-> "''"]

\* `if html_content:`.
Truthy(html_content) == html_content \notin {NoHtml, EmptyHtml}

\* Whether the call makes the request of the else branch.
Fetches(html_content) == ~Truthy(html_content)

RequestExceptions == {"Timeout", "HTTPError"}

TeamNames(soup, header_info) ==
    LET team1_name == header_info.team1_name
        team2_name == header_info.team2_name
        team_name_elements == soup.header.fallback_names
    IN  IF team1_name = NA
        THEN [team1 |-> IF Len(team_name_elements) > 0
                        THEN team_name_elements[1] ELSE team1_name,
              team2 |-> IF Len(team_name_elements) > 1
                        THEN team_name_elements[2] ELSE team2_name]
        ELSE [team1 |-> team1_name, team2 |-> team2_name]

\* A match_data dict whose event date falls back to the time of the call.
MatchRecordDatedNow(match_url, now, header_info, names, maps, overall) ==
    [match_url   |-> match_url,
     match_id    |-> ExtractMatchId(match_url),
     scraped_at  |-> now,
     event_info  |-> [name     |-> header_info.event_name,
                      stage    |-> header_info.event_stage,
                      date_utc |-> IF header_info.match_date_utc = NA
                                   THEN now ELSE header_info.match_date_utc,
                      patch    |-> header_info.patch],
     teams       |->
         [team1 |-> [name |-> names.team1,
                     score_overall |-> header_info.team1_score_overall],
          team2 |-> [name |-> names.team2,
                     score_overall |-> header_info.team2_score_overall]],
     match_format         |-> header_info.match_format,
     map_picks_bans_note  |-> header_info.map_picks_bans_note,
     maps                 |-> maps,
     overall_player_stats |-> overall]

\* The match_data dict literal; scraped_at is datetime.now().isoformat(),
\* kept here as the clock reading itself.
MatchRecord(match_url, now, header_info, names, maps, overall) ==
    [match_url   |-> match_url,
     match_id    |-> ExtractMatchId(match_url),
     scraped_at  |-> now,
     event_info  |-> [name     |-> header_info.event_name,
                      stage    |-> header_info.event_stage,
                      date_utc |-> header_info.match_date_utc,
                      patch    |-> header_info.patch],
     teams       |->
         [team1 |-> [name |-> names.team1,
                     score_overall |-> header_info.team1_score_overall],
          team2 |-> [name |-> names.team2,
                     score_overall |-> header_info.team2_score_overall]],
     match_format         |-> header_info.match_format,
     map_picks_bans_note  |-> header_info.map_picks_bans_note,
     maps                 |-> maps,
     overall_player_stats |-> overall]

\* The match_data dict from the outcomes of the two extractions that may
\* raise.
Assemble(match_url, now, header_info, names, maps, overall) ==
    IF ~maps.ok THEN maps
    ELSE IF ~overall.ok THEN overall
    ELSE Return(MatchRecord(match_url, now, header_info, names,
                            maps.val, overall.val))

WithNames(match_url, soup, now, header_info, names) ==
    Assemble(match_url, now, header_info, names,
             ExtractMapsData(soup, names.team1, names.team2),
             ExtractOverallPlayerStats(soup, names.team1, names.team2))

WithHeader(match_url, soup, now, header_info) ==
    WithNames(match_url, soup, now, header_info, TeamNames(soup, header_info))

\* The statements of the try block that follow the making of the soup.
MatchData(match_url, soup, now) ==
    WithHeader(match_url, soup, now, ExtractMatchHeaderInfo(soup))

\* The body of the try block.
TryBody(match_url, html_content, response, now) ==
    IF Truthy(html_content) THEN MatchData(match_url, html_content, now)
    ELSE IF ~response.ok THEN response
    ELSE MatchData(match_url, response.val, now)

\* Error handling that catches the network errors only.
HandleRequestErrorsOnly(outcome) ==
    IF outcome.ok THEN outcome
    ELSE IF outcome.exc \in RequestExceptions THEN Return(EmptyDict)
    ELSE outcome

\* The two except clauses: both return {}.
HandleErrors(outcome) ==
    IF outcome.ok THEN outcome
    ELSE IF outcome.exc \in RequestExceptions THEN Return(EmptyDict)
    ELSE Return(EmptyDict)

GetMatchDetails(match_url, html_content, response, now) ==
    HandleErrors(TryBody(match_url, html_content, response, now))

-----------------------------------------------------------------------------
\* Stat cells of the model: a cell holds its own text and up to MaxNodes
\* spans; only a statistic-square wrapper nests further spans.

ClassStrings ==
    {SideBoth, ModBoth, SideT, ModT, SideCt, ModCt, StatsSq, <<"stats-sq", "mod-t">>}

\* The text of a span: none, the sentinel string, or a value. The cell's own
\* text differs from it, so that an output shows where it was read from.
NodeTexts == {NoText, NA, <<"7">>}

CellTexts == {NoText, <<"9">>}

EmptyCell == [cls |-> <<>>, text |-> NoText, kids |-> <<>>]

RECURSIVE CountAll(_)
NodeCount(el) == CountAll(el.kids)
CountAll(kids) ==
    IF kids = <<>> THEN 0
    ELSE 1 + NodeCount(Head(kids)) + CountAll(Tail(kids))

Span(cls, text) == [cls |-> cls, text |-> text, kids |-> <<>>]

\* The cell with one more top-level span.
WithSpan(c, sp) == [c EXCEPT !.kids = Append(@, sp)]

\* The cell with one more span inside its last top-level span.
WithChild(c, sp) ==
    [c EXCEPT !.kids[Len(c.kids)].kids = Append(@, sp)]

\* The cell without its i-th top-level span, or without the j-th child of it.
WithoutAt(s, i) == [k \in 1..(Len(s) - 1) |-> IF k < i THEN s[k] ELSE s[k + 1]]
WithoutSpan(c, i) == [c EXCEPT !.kids = WithoutAt(@, i)]
WithoutChild(c, i, j) == [c EXCEPT !.kids[i].kids = WithoutAt(@, j)]

-----------------------------------------------------------------------------
\* The states of the variables a specification does not use.

IdleCell == cell = EmptyCell /\ cellOut = EmptyDict
IdleRow  == row = <<>> /\ style = FALSE /\ rowOut = EmptyDict
IdleMaps == sections = <<>> /\ mapsOut = EmptyDict
IdleRun  == page = EmptyDict /\ url = NoText /\ clock = 0 /\ results = <<>>
IdleBatch ==
    /\ match_urls = <<>> /\ progress_callback = FALSE /\ pos = 0
    /\ detailed_matches = <<>> /\ iterations = <<>> /\ returned = <<>>
IdleHeader == hdr = EmptyDict /\ hdrOut = EmptyDict
IdleOverall == overallOut = EmptyDict /\ teams = <<>>
IdleIds == ids = EmptyDict
IdleNorm == raw = EmptyDict /\ normOut = EmptyDict
IdleShared == inst = EmptyDict /\ calls = <<>>
IdleDb == db = EmptyDict /\ saves = <<>>
IdleExtras == IdleNorm /\ IdleShared /\ IdleDb
IdleRest == IdleBatch /\ IdleHeader /\ IdleOverall /\ IdleIds /\ IdleExtras
IdleParts ==
    /\ cell = EmptyCell /\ cellOut = EmptyDict
    /\ IdleRow /\ IdleMaps /\ IdleRun

-----------------------------------------------------------------------------
\* SpecCell: the side-stat extraction applied to every stat cell of up to
\* MaxNodes spans. Each action hands the extraction a cell that differs from
\* the last one by one span or by the cell's own text.

Extract(c) ==
    /\ cell' = c
    /\ cellOut' = ParseStatCell(c)
    /\ UNCHANGED <<others, row, style, rowOut, sections, mapsOut, page, url, clock, results>>

InitCell ==
    /\ cell = EmptyCell
    /\ cellOut = ParseStatCell(EmptyCell)
    /\ IdleRow /\ IdleMaps /\ IdleRun /\ IdleRest

CellWithSpan ==
    /\ NodeCount(cell) < MaxNodes
    /\ \E cls \in ClassStrings, t \in NodeTexts :
          Extract(WithSpan(cell, Span(cls, t)))

CellWithChild ==
    /\ NodeCount(cell) < MaxNodes
    /\ cell.kids # <<>>
    /\ "stats-sq" \in Range(cell.kids[Len(cell.kids)].cls)
    /\ \E cls \in ClassStrings, t \in NodeTexts :
          Extract(WithChild(cell, Span(cls, t)))

CellWithText ==
    \E t \in CellTexts \ {cell.text} : Extract([cell EXCEPT !.text = t])

CellWithoutSpan ==
    \E i \in 1..Len(cell.kids) :
        /\ cell.kids[i].kids = <<>>
        /\ Extract(WithoutSpan(cell, i))

CellWithoutChild ==
    \E i \in 1..Len(cell.kids) : \E j \in 1..Len(cell.kids[i].kids) :
        Extract(WithoutChild(cell, i, j))

NextCell ==
    \/ CellWithSpan
    \/ CellWithChild
    \/ CellWithText
    \/ CellWithoutSpan
    \/ CellWithoutChild

SpecCell == InitCell /\ [][NextCell]_vars

-----------------------------------------------------------------------------
\* What the claims about one stat cell speak of, stated over the spans of
\* the cell listed in document order.

RECURSIVE Flatten(_)
Flatten(kids) ==
    IF kids = <<>> THEN <<>>
    ELSE <<Head(kids)>> \o Flatten(Head(kids).kids) \o Flatten(Tail(kids))

AllSpans(el) == Flatten(el.kids)

Carries(sp, marker) == marker \in Range(sp.cls)

HasMarker(el, marker) ==
    \E i \in 1..Len(AllSpans(el)) : Carries(AllSpans(el)[i], marker)

\* The first span of el, in document order, that satisfies P: <<>> if none.
FirstSpan(el, P(_)) ==
    LET S == AllSpans(el)
        I == {i \in 1..Len(S) : P(S[i])}
    IN  IF I = {} THEN <<>>
        ELSE <<S[CHOOSE i \in I : \A j \in I : i <= j]>>

IsSideBoth(sp) == sp.cls = SideBoth
IsBoth(sp)     == Carries(sp, "mod-both")
IsSideT(sp)    == sp.cls = SideT
IsT(sp)        == Carries(sp, "mod-t")
IsSideCt(sp)   == sp.cls = SideCt
IsCt(sp)       == Carries(sp, "mod-ct")
IsSq(sp)       == Carries(sp, "stats-sq")

TextOf(found) == IF found = <<>> THEN NoText ELSE GetText(found[1])

\* What each of the four strategies for the combined value yields.
YieldA(c) == TextOf(FirstSpan(c, IsSideBoth))
YieldB(c) == TextOf(FirstSpan(c, IsBoth))
YieldC(c) ==
    LET sq == FirstSpan(c, IsSq)
    IN  IF sq # <<>> /\ ~HasMarker(sq[1], "mod-t") /\ ~HasMarker(sq[1], "mod-ct")
        THEN GetText(sq[1]) ELSE NoText
YieldD(c) ==
    IF ~HasMarker(c, "mod-t") /\ ~HasMarker(c, "mod-ct") THEN GetText(c) ELSE NoText

Yields(c) == <<YieldA(c), YieldB(c), YieldC(c), YieldD(c)>>

\* The first element of ys that is not in `nothing`, or the sentinel.
FirstYield(ys, nothing) ==
    LET I == {i \in 1..Len(ys) : ys[i] \notin nothing}
    IN  IF I = {} THEN NA ELSE ys[CHOOSE i \in I : \A j \in I : i <= j]

\* The combined values a cell holds: the texts of its both-marker spans, of
\* its statistic-square wrappers, and its own text.
CombinedValues(c) ==
    ({GetText(AllSpans(c)[i]) :
         i \in {k \in 1..Len(AllSpans(c)) :
                   IsBoth(AllSpans(c)[k]) \/ IsSq(AllSpans(c)[k])}}
     \cup {GetText(c)}) \ {NoText, NA}

-----------------------------------------------------------------------------
\* Claims about one stat cell (checked under SpecCell).

NoSideMarker(c) == ~HasMarker(c, "mod-t") /\ ~HasMarker(c, "mod-ct")

\* C4: a cell that holds a combined value and no attack-marker and no
\* defense-marker span has the sentinel as its attack and its defense output,
\* and its `all` output is populated with one of the combined values it holds.
C4_CombinedOnly ==
    NoSideMarker(cell) =>
        /\ cellOut.attack = NA
        /\ cellOut.defense = NA
        /\ CombinedValues(cell) # {} =>
              cellOut.all # NA /\ cellOut.all \in CombinedValues(cell)

C4_Witness ==
    /\ NoSideMarker(cell)
    /\ HasMarker(cell, "mod-both")
    /\ cell.text # NoText
    /\ cellOut.all = YieldB(cell)
    /\ cellOut.all \notin {NA, GetText(cell)}
    /\ cellOut.attack = NA

\* C5: for a cell with attack- and/or defense-marker spans and no both-marker
\* span, `all` is the sentinel unless the cell's first statistic-square
\* wrapper has neither an attack-marker nor a defense-marker descendant, in
\* which case it is that wrapper's text; the cell's own text is never used.
C5_SplitOnly ==
    (~NoSideMarker(cell) /\ ~HasMarker(cell, "mod-both")) =>
        LET sq == FirstSpan(cell, IsSq)
        IN  IF sq # <<>> /\ NoSideMarker(sq[1])
            THEN cellOut.all = OrNA(GetText(sq[1]))
            ELSE cellOut.all = NA

C5_Witness ==
    /\ ~NoSideMarker(cell)
    /\ ~HasMarker(cell, "mod-both")
    /\ cell.text # NoText
    /\ cellOut.attack \notin {NA}
    /\ cellOut.all = NA

C7_SideValues ==
    /\ cellOut.attack =
          (IF FirstSpan(cell, IsSideT) # <<>>
           THEN OrNA(GetText(FirstSpan(cell, IsSideT)[1]))
           ELSE IF FirstSpan(cell, IsT) # <<>>
           THEN OrNA(GetText(FirstSpan(cell, IsT)[1]))
           ELSE NA)
    /\ cellOut.defense =
          (IF FirstSpan(cell, IsSideCt) # <<>>
           THEN OrNA(GetText(FirstSpan(cell, IsSideCt)[1]))
           ELSE IF FirstSpan(cell, IsCt) # <<>>
           THEN OrNA(GetText(FirstSpan(cell, IsCt)[1]))
           ELSE NA)

C7_Witness ==
    /\ Len(cell.kids) = 2
    /\ cell.kids[1].cls = ModT
    /\ cell.kids[1].text = NA
    /\ cell.kids[2].cls = SideT
    /\ cell.kids[2].text \notin {NoText, NA}
    /\ cellOut.attack = cell.kids[2].text

IsMarked(sp) == Carries(sp, "mod-t") \/ Carries(sp, "mod-ct") \/ Carries(sp, "mod-both")

\* The spans `kids` without the childless spans that carry `marker`; the
\* children of a span that itself carries a marker are left as they are
\* (their text is part of that span's text).
RECURSIVE StripAll(_, _)
StripAll(kids, marker) ==
    IF kids = <<>> THEN <<>>
    ELSE LET h == Head(kids)
         IN  IF Carries(h, marker) /\ h.kids = <<>>
             THEN StripAll(Tail(kids), marker)
             ELSE <<IF IsMarked(h) THEN h
                    ELSE [h EXCEPT !.kids = StripAll(h.kids, marker)]>>
                     \o StripAll(Tail(kids), marker)

Strip(c, marker) == [c EXCEPT !.kids = StripAll(c.kids, marker)]

\* A step between two cells that differ only in their childless spans
\* carrying `marker` that are not nested inside another marker span.
DiffersOnlyIn(marker) == cell' # cell /\ Strip(cell', marker) = Strip(cell, marker)

\* The combined value is read from a both-marker span (strategy a or b).
ReadFromBoth(c) == ~StillMissing(YieldA(c)) \/ ~StillMissing(YieldB(c))

\* C8 as claimed: between two cells that differ only in their attack-marker
\* spans the combined and the defense output are equal; likewise for the
\* defense-marker spans (combined, attack) and the both-marker spans
\* (attack, defense).
C8_Independent ==
    [][ /\ DiffersOnlyIn("mod-t") =>
              cellOut'.all = cellOut.all /\ cellOut'.defense = cellOut.defense
        /\ DiffersOnlyIn("mod-ct") =>
              cellOut'.all = cellOut.all /\ cellOut'.attack = cellOut.attack
        /\ DiffersOnlyIn("mod-both") =>
              cellOut'.attack = cellOut.attack /\ cellOut'.defense = cellOut.defense
      ]_vars

\* C8 as amended (marker spans being childless and not nested inside another
\* marker span): the attack and the defense output do not depend on the other
\* two kinds of marker spans, and the combined output does not depend on the
\* attack-marker or defense-marker spans whenever it is read from a
\* both-marker span (strategy a or b); a combined value read by strategy (c)
\* or (d) depends on the presence of side-marker spans, as the guards demand.
C8_IndependentUnlessGuarded ==
    [][ /\ DiffersOnlyIn("mod-t") =>
              /\ cellOut'.defense = cellOut.defense
              /\ ReadFromBoth(cell) => cellOut'.all = cellOut.all
        /\ DiffersOnlyIn("mod-ct") =>
              /\ cellOut'.attack = cellOut.attack
              /\ ReadFromBoth(cell) => cellOut'.all = cellOut.all
        /\ DiffersOnlyIn("mod-both") =>
              cellOut'.attack = cellOut.attack /\ cellOut'.defense = cellOut.defense
      ]_vars

C8_Witness ==
    /\ HasMarker(cell, "mod-t")
    /\ HasMarker(cell, "mod-both")
    /\ ReadFromBoth(cell)
    /\ cellOut.all \notin {NA}
    /\ cellOut.attack \notin {NA}
    /\ cellOut.defense = NA

-----------------------------------------------------------------------------
\* SpecRow: _parse_player_row_stats applied to every row of up to MaxCells
\* cells, in both styles. The i-th cell of a row carries the number i in its
\* texts, so that a stat value shows the cell it was read from.

DigitChars == <<"0", "1", "2", "3", "4", "5", "6", "7", "8", "9">>

\* The decimal text of a natural number.
RECURSIVE Dec(_)
Dec(n) == IF n < 10 THEN <<DigitChars[n + 1]>>
          ELSE Dec(n \div 10) \o <<DigitChars[(n % 10) + 1]>>

\* A cell holding one combined value as its own text.
PlainCell(i) == [cls |-> <<>>, text |-> Dec(i), kids |-> <<>>]

\* A cell holding a statistic-square wrapper with the three values of a
\* side-split statistic.
SplitCell(i) ==
    [cls |-> <<>>, text |-> NoText,
     kids |-> <<[cls |-> StatsSq, text |-> NoText,
                 kids |-> <<Span(SideBoth, Dec(i)),
                            Span(SideT, <<"t">> \o Dec(i)),
                            Span(SideCt, <<"c">> \o Dec(i))>>]>>]

CellKinds(i) == {PlainCell(i), SplitCell(i)}

TeamOfRow == <<"A">>

ParseRow(cells) ==
    /\ row' = cells
    /\ rowOut' = ParsePlayerRowStats(cells, style, TeamOfRow)
    /\ UNCHANGED <<others, style, cell, cellOut, sections, mapsOut, page, url, clock, results>>

InitRow ==
    /\ row = <<>>
    /\ style \in BOOLEAN
    /\ rowOut = ParsePlayerRowStats(<<>>, style, TeamOfRow)
    /\ cell = EmptyCell /\ cellOut = EmptyDict
    /\ IdleMaps /\ IdleRun /\ IdleRest

RowWithCell ==
    /\ Len(row) < MaxCells
    /\ \E c \in CellKinds(Len(row)) : ParseRow(Append(row, c))

NextRow == RowWithCell

SpecRow == InitRow /\ [][NextRow]_vars

\* C1: in either style and for every StatKey index i in 0..11, the key's
\* all/attack/defense values are read from the cell at position offset+i (and
\* from no other) if the row has that cell, and are the sentinel otherwise;
\* the three maps always hold exactly the 12 StatKeys.
C1_NoIndexDrift ==
    LET offset == IF style THEN 2 ELSE 1
    IN  /\ rowOut.ok
        /\ \A m \in {"stats_all_sides", "stats_attack", "stats_defense"} :
              DOMAIN rowOut.val[m] = Range(StatKeys)
        /\ \A i \in 0..11 :
              LET key == StatKeys[i + 1]
                  got == [all     |-> rowOut.val.stats_all_sides[key],
                          attack  |-> rowOut.val.stats_attack[key],
                          defense |-> rowOut.val.stats_defense[key]]
              IN  IF offset + i < Len(row)
                  THEN got = ParseStatCell(row[offset + i + 1])
                  ELSE got = MissingStat

\* A row the parser raises on: an overview-style row of one cell.
C1_Raised == style /\ Len(row) = 1 /\ rowOut = Raise("IndexError")

\* The part of C1 that the code keeps: whenever the row parser returns, the
\* keys are filled as C1 says.
RowStatsWhenReturned ==
    rowOut.ok =>
        LET offset == IF style THEN 2 ELSE 1
        IN  /\ \A m \in {"stats_all_sides", "stats_attack", "stats_defense"} :
                  DOMAIN rowOut.val[m] = Range(StatKeys)
            /\ \A i \in 0..11 :
                  LET key == StatKeys[i + 1]
                      got == [all     |-> rowOut.val.stats_all_sides[key],
                              attack  |-> rowOut.val.stats_attack[key],
                              defense |-> rowOut.val.stats_defense[key]]
                  IN  IF offset + i < Len(row)
                      THEN got = ParseStatCell(row[offset + i + 1])
                      ELSE got = MissingStat

-----------------------------------------------------------------------------
\* SpecMaps: _extract_maps_data applied to every list of statistics
\* sections of up to MaxItems sections, score elements and tables.

TeamA == <<"A">>
TeamB == <<"B">>

ScoreTexts == {<<"1", "3">>, <<"1", "1">>, NoText, <<"x">>}

\* A per-map row of two cells, and a row without cells.
ShortRow == <<PlainCell(0), PlainCell(1)>>
NoCellRow == <<>>

Table(rows) == [tbody |-> TRUE, rows |-> rows]

TableKinds == {Table(<<ShortRow>>), Table(<<NoCellRow>>)}

Section(game_id, header, map) ==
    [game_id |-> game_id, header |-> header, map |-> map,
     name |-> <<<<"B", "i", "n", "d">>>>, picked |-> "none", duration |-> <<>>,
     scores |-> <<>>, tables |-> <<>>]

NewSections ==
    {Section(id, hm[1], hm[2]) :
        id \in {"all", "1"}, hm \in {<<FALSE, FALSE>>, <<TRUE, FALSE>>, <<TRUE, TRUE>>}}

ItemCount(secs) ==
    LET n[k \in 0..Len(secs)] ==
            IF k = 0 THEN 0
            ELSE n[k - 1] + 1 + Len(secs[k].scores) + Len(secs[k].tables)
    IN  n[Len(secs)]

ExtractMaps(secs) ==
    /\ sections' = secs
    /\ mapsOut' = ExtractMapsData([sections |-> secs], TeamA, TeamB)
    /\ UNCHANGED <<others, cell, cellOut, row, style, rowOut, page, url, clock, results>>

InitMaps ==
    /\ sections = <<>>
    /\ mapsOut = ExtractMapsData([sections |-> <<>>], TeamA, TeamB)
    /\ cell = EmptyCell /\ cellOut = EmptyDict
    /\ IdleRow /\ IdleRun /\ IdleRest

MapsWithSection ==
    /\ ItemCount(sections) < MaxItems
    /\ \E sec \in NewSections : ExtractMaps(Append(sections, sec))

MapsWithScore ==
    /\ ItemCount(sections) < MaxItems
    /\ sections # <<>>
    /\ sections[Len(sections)].header
    /\ \E t \in ScoreTexts :
          ExtractMaps([sections EXCEPT ![Len(sections)].scores = Append(@, t)])

MapsWithTable ==
    /\ ItemCount(sections) < MaxItems
    /\ sections # <<>>
    /\ \E tb \in TableKinds :
          ExtractMaps([sections EXCEPT ![Len(sections)].tables = Append(@, tb)])

NextMaps == MapsWithSection \/ MapsWithScore \/ MapsWithTable

SpecMaps == InitMaps /\ [][NextMaps]_vars

\* The map sections an entry is built from: those with a header and a map.
EntrySections(secs) ==
    SelectSeq(secs, LAMBDA sec : IsMapSection(sec) /\ sec.header /\ sec.map)

\* A score text that is empty or not a number.
Unparsable(text) == text = <<>> \/ \E i \in 1..Len(text) : ~IsDigit(text[i])

ScoreAbsent(sec) ==
    Len(sec.scores) < 2 \/ Unparsable(sec.scores[1]) \/ Unparsable(sec.scores[2])

ClaimedWinner(sec) ==
    IF ScoreAbsent(sec) THEN NA
    ELSE IF DigitsValue(sec.scores[1]) > DigitsValue(sec.scores[2]) THEN TeamA
    ELSE IF DigitsValue(sec.scores[2]) > DigitsValue(sec.scores[1]) THEN TeamB
    ELSE Draw

\* No row of the sections lacks the cells the row parser indexes.
RowsWellFormed(secs) ==
    \A k \in 1..Len(secs) : \A t \in 1..Len(secs[k].tables) :
        \A r \in 1..Len(secs[k].tables[t].rows) :
            Len(secs[k].tables[t].rows[r]) >= (IF secs[k].game_id = "all" THEN 2 ELSE 1)

\* C9: for every map section the derived winner is team1 if team1's map
\* score is strictly greater, team2 if team2's is, "Draw" if they are equal,
\* and the sentinel whenever either score is absent (a missing score element,
\* or a score text that is empty or unparsable).
C9_Winner ==
    RowsWellFormed(sections) =>
    /\ mapsOut.ok
    /\ Len(mapsOut.val) = Len(EntrySections(sections))
    /\ \A k \in 1..Len(EntrySections(sections)) :
          mapsOut.val[k].winner_team_name = ClaimedWinner(EntrySections(sections)[k])

\* A section with two score elements, the first of them empty, in a document
\* whose rows are well formed: the call raises, and no winner is derived.
C9_Raised ==
    /\ RowsWellFormed(sections)
    /\ \E k \in 1..Len(sections) :
          /\ IsMapSection(sections[k]) /\ sections[k].header /\ sections[k].map
          /\ Len(sections[k].scores) >= 2
          /\ sections[k].scores[1] = NoText
    /\ mapsOut = Raise("ValueError")

\* The part of C9 that the code keeps: whenever _extract_maps_data returns,
\* the winner of every entry is as C9 says.
WinnerWhenReturned ==
    mapsOut.ok =>
        /\ Len(mapsOut.val) = Len(EntrySections(sections))
        /\ \A k \in 1..Len(EntrySections(sections)) :
              mapsOut.val[k].winner_team_name = ClaimedWinner(EntrySections(sections)[k])

-----------------------------------------------------------------------------
\* Spec: runs of get_match_details on one page. The page and the URL are
\* drawn at the start; each call is handed the page as html_content, or None
\* or the empty string, in which case requests.get answers with the page or
\* raises; the clock advances between calls.

FullHeader ==
    [event          |-> <<<<"V", "C", "T">>, <<"K", "O">>>>,
     date           |-> <<<<"1", "7">>>>,
     patch          |-> <<<<"8", ".", "1">>>>,
     team1          |-> <<TeamA>>,
     team2          |-> <<TeamB>>,
     score_spans    |-> <<[text |-> <<"2">>, winner |-> TRUE],
                          [text |-> <<":">>, winner |-> FALSE],
                          [text |-> <<"0">>, winner |-> FALSE]>>,
     notes          |-> <<FinalText, <<"B", "o", "3">>>>,
     pick_note      |-> <<<<"b", "a", "n">>>>,
     fallback_names |-> <<TeamA, TeamB>>]

\* A document without any of the header's elements.
BareHeader ==
    [event |-> <<>>, date |-> <<>>, patch |-> <<>>, team1 |-> <<>>, team2 |-> <<>>,
     score_spans |-> <<>>, notes |-> <<>>, pick_note |-> <<>>, fallback_names |-> <<>>]

OverviewRow == <<PlainCell(0), PlainCell(1), SplitCell(2)>>
OneCellRow == <<PlainCell(0)>>

MapSection(game_id, scores, rows) ==
    [Section(game_id, TRUE, TRUE) EXCEPT
        !.scores = scores,
        !.tables = <<Table(rows), Table(rows)>>]

GoodMap    == MapSection("1", <<<<"1", "3">>, <<"7">>>>, <<ShortRow>>)
BadScore   == MapSection("2", <<<<"x">>, <<"7">>>>, <<ShortRow>>)
NoScore    == MapSection("2", <<NoText, <<"7">>>>, <<ShortRow>>)
EmptyRow   == MapSection("2", <<<<"7">>, <<"1", "3">>>>, <<ShortRow, NoCellRow>>)
GoodAll    == MapSection("all", <<>>, <<OverviewRow>>)
OneCellAll == MapSection("all", <<>>, <<OverviewRow, OneCellRow>>)

\* The section lists of the pages: no section, any one section, and a
\* well-formed map beside any one section, in both orders.
SectionKinds == {GoodMap, BadScore, NoScore, EmptyRow, GoodAll, OneCellAll}

SectionLists ==
    {<<>>} \cup {<<k>> : k \in SectionKinds}
           \cup {<<GoodMap, k>> : k \in SectionKinds \ {GoodMap}}
           \cup {<<k, GoodMap>> : k \in SectionKinds \ {GoodMap}}

Pages == [header : {FullHeader, BareHeader}, sections : SectionLists]

Urls == {<<"/", "4", "2", "/", "a">>, <<"/", "a">>}

Responses(doc) == {Return(doc)} \cup {Raise(e) : e \in RequestExceptions}

Init ==
    /\ page \in Pages
    /\ url \in Urls
    /\ clock = 0
    /\ results = <<>>
    /\ cell = EmptyCell /\ cellOut = EmptyDict
    /\ IdleRow /\ IdleMaps /\ IdleRest

Tick ==
    /\ clock < MaxClock
    /\ clock' = clock + 1
    /\ UNCHANGED <<others, page, url, results, cell, cellOut, row, style, rowOut, sections, mapsOut>>

\* A call handed the page.
CallWithHtml ==
    /\ Len(results) < MaxCalls
    /\ results' = Append(results,
                         [html |-> page, fetched |-> Fetches(page), parsed |-> TRUE,
                          out |-> GetMatchDetails(url, page, Raise("Timeout"), clock)])
    /\ UNCHANGED <<others, page, url, clock, cell, cellOut, row, style, rowOut, sections, mapsOut>>

\* A call handed None or '' that fetches the page itself.
CallWithoutHtml ==
    /\ Len(results) < MaxCalls
    /\ \E html_content \in {NoHtml, EmptyHtml}, response \in Responses(page) :
          results' = Append(results,
                            [html |-> html_content, fetched |-> Fetches(html_content),
                             parsed |-> response.ok,
                             out |-> GetMatchDetails(url, html_content, response, clock)])
    /\ UNCHANGED <<others, page, url, clock, cell, cellOut, row, style, rowOut, sections, mapsOut>>

Next == Tick \/ CallWithHtml \/ CallWithoutHtml

Spec == Init /\ [][Next]_vars

\* The calls that parsed the page.
Parsed == {k \in 1..Len(results) : results[k].parsed}

\* A section with a row that lacks a cell the row parser indexes, or a map
\* section with a score text int() does not parse.
Malformed(sec) ==
    \/ ~RowsWellFormed(<<sec>>)
    \/ /\ IsMapSection(sec)
       /\ Len(sec.scores) >= 2
       /\ (Unparsable(sec.scores[1]) \/ Unparsable(sec.scores[2]))

\* The record holds the data of the section sec of the page.
HoldsSection(rec, sec, names) ==
    IF sec.game_id = "all"
    THEN rec.overall_player_stats =
             SectionPlayerStats(sec.tables, TRUE, names.team1, names.team2).val
    ELSE \E m \in 1..Len(rec.maps) :
            /\ rec.maps[m].map_name = MapName(sec)
            /\ rec.maps[m].team1_score_map =
                   MapScores(sec.scores, names.team1, names.team2).val.team1_score_map
            /\ rec.maps[m].player_stats =
                   SectionPlayerStats(sec.tables, FALSE, names.team1, names.team2).val

\* C2: for a document with a single malformed map section or player row (a
\* row with no cells, an overview row with one cell, a map score that is not
\* an integer), get_match_details still returns a Match record that holds the
\* header and the data of every other section.
C2_RestExtracted ==
    \A k \in Parsed :
        LET out == results[k].out
            header_info == ExtractMatchHeaderInfo(page)
            names == TeamNames(page, header_info)
        IN  /\ out.ok
            /\ DOMAIN out.val # {}
            /\ out.val.event_info.name = header_info.event_name
            /\ out.val.event_info.stage = header_info.event_stage
            /\ out.val.teams.team1.name = names.team1
            /\ out.val.teams.team2.name = names.team2
            /\ out.val.match_format = header_info.match_format
            /\ \A s \in 1..Len(page.sections) :
                  ~Malformed(page.sections[s]) =>
                      HoldsSection(out.val, page.sections[s], names)

\* A page with a well-formed map section beside a malformed section, parsed
\* by a call that returns the empty dict.
C2_Emptied ==
    \E k \in Parsed :
        /\ \E s \in 1..Len(page.sections) : Malformed(page.sections[s])
        /\ \E s \in 1..Len(page.sections) : page.sections[s] = GoodMap
        /\ results[k].out = Return(EmptyDict)

\* The part of C2 that the code keeps: a call that parses a page none of
\* whose sections is malformed returns a record with the header and the data
\* of every section.
RestExtractedWhenWellFormed ==
    (\A s \in 1..Len(page.sections) : ~Malformed(page.sections[s]))
        => C2_RestExtracted

Undated(rec) ==
    IF DOMAIN rec = {} THEN rec ELSE [rec EXCEPT !.scraped_at = None]

MatchKeys ==
    {"match_id", "event_info", "teams", "match_format", "map_picks_bans_note",
     "maps", "overall_player_stats"}

\* C10: get_match_details never propagates an exception: every call returns
\* either a complete Match record or the empty record.
C10_RecordOrEmpty ==
    \A k \in 1..Len(results) :
        /\ results[k].out.ok
        /\ \/ DOMAIN results[k].out.val = {}
           \/ MatchKeys \subseteq DOMAIN results[k].out.val

\* A call whose parsing raised, a call whose retrieval raised, or both in
\* one run: each returned the empty record.
C10_Witness ==
    /\ \E k \in Parsed :
          /\ \E s \in 1..Len(page.sections) : Malformed(page.sections[s])
          /\ DOMAIN results[k].out.val = {}
    /\ \E k \in 1..Len(results) :
          /\ ~results[k].parsed
          /\ DOMAIN results[k].out.val = {}

-----------------------------------------------------------------------------
\* DetailedMatchScraper (src/detailed_match_scraper.py): scrape_match and the
\* batch loop of scrape_multiple_matches.

\* extract_match_id_from_url: the same search inside a try that answers None
\* for any exception (the search raises none on a text).
ExtractMatchIdFromUrl(match_url) == Opt(ReSearchId(match_url), None)

\* The body of the try block of scrape_match; `rendered` is the outcome of
\* _get_rendered_html(url). Of the record that _extract_match_info and
\* _extract_map_details fill, the model keeps the two entries derived from
\* the URL and an empty list of maps.
ScrapeBody(match_url, rendered) ==
    IF ~rendered.ok THEN rendered
    ELSE Return([match_url |-> match_url,
                 match_id  |-> ExtractMatchIdFromUrl(match_url),
                 maps      |-> <<>>])

\* `except Exception: return {}`.
ScrapeErrors(outcome) == IF outcome.ok THEN outcome ELSE Return(EmptyDict)

ScrapeMatch(match_url, rendered) == ScrapeErrors(ScrapeBody(match_url, rendered))

\* A loop that ends at the first exception.
OnExceptionBreak(index, n) == n

\* The index of the pass that follows one that raised: `continue`.
OnException(index, n) == index + 1

\* A pass that sleeps only after a scrape that gave a record.
EventsWithoutDelayOnFailure(callback, outcome) ==
    IF ~callback.ok THEN <<>>
    ELSE IF outcome = Return(EmptyDict) THEN <<"retrieve">>
    ELSE <<"retrieve", "sleep">>

\* The page retrievals and delays of one pass, in their order: none when the
\* callback raises before scrape_match is called; otherwise the retrieval of
\* _get_rendered_html and, scrape_match raising nothing, the time.sleep(1)
\* that follows the append.
EventsOfPass(callback, outcome) ==
    IF ~callback.ok THEN <<>> ELSE <<"retrieve", "sleep">>

\* The body of the try block of one pass: the callback, if one was given,
\* then scrape_match.
PassBody(match_url, callback, rendered) ==
    IF ~callback.ok THEN callback ELSE ScrapeMatch(match_url, rendered)

-----------------------------------------------------------------------------
\* SpecBatch: runs of scrape_multiple_matches on every list of up to MaxUrls
\* URLs, with and without a progress callback; a callback returns or raises,
\* the rendering of a page returns or raises.

MaxUrls == 3

BatchUrls == {<<"/", "1", "/", "a">>, <<"/", "b">>}

RECURSIVE ListsUpTo(_, _)
ListsUpTo(S, n) ==
    IF n = 0 THEN {<<>>}
    ELSE ListsUpTo(S, n - 1) \cup
         {Append(l, x) : l \in {m \in ListsUpTo(S, n - 1) : Len(m) = n - 1}, x \in S}

Html == [html |-> "page"]

RenderOutcomes == {Return(Html), Raise("TimeoutException")}

\* `if progress_callback:` and what the call of the callback does.
CallbackOutcomes(given) ==
    IF given THEN {Return("called"), Raise("CallbackError")} ELSE {Return("none")}

InitBatch ==
    /\ match_urls \in ListsUpTo(BatchUrls, MaxUrls)
    /\ progress_callback \in BOOLEAN
    /\ pos = 0
    /\ detailed_matches = <<>>
    /\ iterations = <<>>
    /\ returned = <<>>
    /\ IdleParts /\ IdleHeader /\ IdleOverall /\ IdleIds /\ IdleExtras

\* One pass of the loop over enumerate(match_urls).
Pass ==
    /\ returned = <<>>
    /\ pos < Len(match_urls)
    /\ \E callback \in CallbackOutcomes(progress_callback), rendered \in RenderOutcomes :
          LET match_url == match_urls[pos + 1]
              outcome == PassBody(match_url, callback, rendered)
          IN  /\ detailed_matches' =
                    IF outcome.ok THEN Append(detailed_matches, outcome.val)
                    ELSE detailed_matches
              /\ pos' = IF outcome.ok THEN pos + 1
                        ELSE OnException(pos, Len(match_urls))
              /\ iterations' =
                    Append(iterations,
                           [index  |-> pos,
                            url    |-> match_url,
                            raised |-> ~outcome.ok,
                            events |-> EventsOfPass(callback, outcome),
                            result |-> IF outcome.ok THEN <<outcome.val>> ELSE <<>>])
    /\ UNCHANGED <<parts, hdr, hdrOut, overallOut, teams, ids, extras, match_urls, progress_callback, returned>>

\* The end of the loop: return detailed_matches.
ReturnMatches ==
    /\ returned = <<>>
    /\ pos >= Len(match_urls)
    /\ returned' = <<detailed_matches>>
    /\ UNCHANGED <<parts, hdr, hdrOut, overallOut, teams, ids, extras, match_urls, progress_callback, pos, detailed_matches, iterations>>

NextBatch == Pass \/ ReturnMatches

\* The loop runs on without outside help: a pass that can be taken is taken.
SpecBatch == InitBatch /\ [][NextBatch]_vars /\ WF_vars(NextBatch)

\* The results of the passes, in the order of the passes.
RECURSIVE ResultsOf(_)
ResultsOf(its) ==
    IF its = <<>> THEN <<>> ELSE its[1].result \o ResultsOf(Tail(its))

\* The passes so far are the passes of the first URLs of the list, one pass
\* per URL, in input order.
InInputOrder ==
    /\ Len(iterations) <= Len(match_urls)
    /\ \A k \in 1..Len(iterations) :
          /\ iterations[k].index = k - 1
          /\ iterations[k].url = match_urls[k]

\* Every result is the empty dict or the record of the URL of its pass.
ResultsOfTheirUrls ==
    \A k \in 1..Len(iterations) :
        \A r \in Range(iterations[k].result) :
            DOMAIN r = {} \/ r.match_url = iterations[k].url

\* C11: in a batch run every URL of the input list is attempted exactly once
\* and in input order, the run terminates after the last URL, a failure at one
\* URL (a page that cannot be scraped, a progress callback that raises) never
\* prevents the later URLs from being attempted, and the returned list holds
\* the results in input order.
C11_Batch ==
    /\ [](InInputOrder /\ ResultsOfTheirUrls)
    /\ <>(returned # <<>>)
    /\ [](returned # <<>> =>
             /\ Len(iterations) = Len(match_urls)
             /\ returned[1] = ResultsOf(iterations))

\* A finished run in which the callback raised at the first URL, the page of
\* the second could not be rendered, and the third was scraped.
C11_Witness ==
    /\ returned # <<>>
    /\ Len(match_urls) = 3
    /\ iterations[1].raised
    /\ iterations[2].result = <<EmptyDict>>
    /\ iterations[3].result # <<>> /\ DOMAIN iterations[3].result[1] # {}
    /\ Len(returned[1]) = 2

-----------------------------------------------------------------------------
\* SpecHeader: _extract_match_header_info applied to headers whose score
\* region (div.js-spoiler) holds up to MaxSpans spans.

MaxSpans == 4

SpanTexts == {<<"2">>, <<"0">>, <<"-", "1">>, <<"x">>, NoText}

ScoreSpans == [text : SpanTexts, winner : BOOLEAN]

ExtractHeader(h) ==
    /\ hdr' = h
    /\ hdrOut' = ExtractMatchHeaderInfo([header |-> h, sections |-> <<>>])
    /\ UNCHANGED <<parts, batch, overallOut, teams, ids, extras>>

InitHeader ==
    /\ hdr = FullHeader
    /\ hdrOut = ExtractMatchHeaderInfo([header |-> FullHeader, sections |-> <<>>])
    /\ IdleParts /\ IdleBatch /\ IdleOverall /\ IdleIds /\ IdleExtras

HeaderWithoutSpans ==
    /\ hdr.score_spans # <<>>
    /\ ExtractHeader([hdr EXCEPT !.score_spans = <<>>])

HeaderWithSpan ==
    /\ Len(hdr.score_spans) < MaxSpans
    /\ \E sp \in ScoreSpans :
          ExtractHeader([hdr EXCEPT !.score_spans = Append(@, sp)])

NextHeader == HeaderWithoutSpans \/ HeaderWithSpan

SpecHeader == InitHeader /\ [][NextHeader]_vars

\* Both score texts of a three-span score region are integers.
BothParse ==
    /\ Len(hdr.score_spans) = 3
    /\ ParseInt(hdr.score_spans[1].text).ok
    /\ ParseInt(hdr.score_spans[3].text).ok

\* C12: the two overall scores are integers that are never negative; if the
\* score region does not hold exactly three spans, or either score text does
\* not parse as an integer, both are 0.
C12_ScoresNatural ==
    /\ hdrOut.team1_score_overall \in Nat
    /\ hdrOut.team2_score_overall \in Nat
    /\ ~BothParse =>
          hdrOut.team1_score_overall = 0 /\ hdrOut.team2_score_overall = 0

\* A three-span score region whose first text is "-1": a negative score.
C12_Negative ==
    /\ Len(hdr.score_spans) = 3
    /\ hdr.score_spans[1].text = <<"-", "1">>
    /\ hdr.score_spans[1].winner
    /\ hdrOut.team1_score_overall = 0 - 1

\* The part of C12 that the code keeps: the scores are integers, and both are
\* 0 unless there are exactly three spans whose two score texts parse.
ScoresDefaultTogether ==
    /\ hdrOut.team1_score_overall \in Int
    /\ hdrOut.team2_score_overall \in Int
    /\ ~BothParse =>
          hdrOut.team1_score_overall = 0 /\ hdrOut.team2_score_overall = 0

\* C13: given exactly three spans whose first and third texts are the
\* integers a and b: team1 gets a and team2 gets b if the first span carries
\* the winner marker or neither the first nor the third does; team1 gets b and
\* team2 gets a if only the third carries it.
C13_WinnerAssignment ==
    BothParse =>
        LET a == ParseInt(hdr.score_spans[1].text).val
            b == ParseInt(hdr.score_spans[3].text).val
            first == hdr.score_spans[1].winner
            third == hdr.score_spans[3].winner
        IN  /\ (first \/ (~first /\ ~third)) =>
                  /\ hdrOut.team1_score_overall = a
                  /\ hdrOut.team2_score_overall = b
            /\ (~first /\ third) =>
                  /\ hdrOut.team1_score_overall = b
                  /\ hdrOut.team2_score_overall = a
            /\ {hdrOut.team1_score_overall, hdrOut.team2_score_overall} = {a, b}

\* Three spans, different scores, the winner marker on the third only: the
\* scores are swapped.
C13_Witness ==
    /\ BothParse
    /\ ~hdr.score_spans[1].winner /\ hdr.score_spans[3].winner
    /\ hdr.score_spans[1].text = <<"0">> /\ hdr.score_spans[3].text = <<"2">>
    /\ hdrOut.team1_score_overall = 2 /\ hdrOut.team2_score_overall = 0

-----------------------------------------------------------------------------
\* SpecSections: _extract_maps_data and _extract_overall_player_stats applied
\* to every list of up to MaxSections statistics sections. The k-th section
\* of a document carries the number k as the player name of the one row of
\* its tables, so that an output shows the section it was built from.

MaxSections == 4

\* The data-game-id of a section: "" stands for a section without one.
GameIds == {"all", "1", "2", ""}

TaggedRow(k) == <<PlainCell(k), PlainCell(0), PlainCell(1)>>

TaggedSection(game_id, k) ==
    [Section(game_id, TRUE, TRUE) EXCEPT
        !.tables = <<Table(<<TaggedRow(k)>>), Table(<<TaggedRow(k)>>)>>]

ExtractSections(secs) ==
    /\ sections' = secs
    /\ mapsOut' = ExtractMapsData([sections |-> secs], TeamA, TeamB)
    /\ overallOut' = ExtractOverallPlayerStats([sections |-> secs], TeamA, TeamB)
    /\ UNCHANGED <<cell, cellOut, row, style, rowOut, page, url, clock, results,
                   batch, hdr, hdrOut, teams, ids, extras>>

InitSections ==
    /\ sections = <<>>
    /\ mapsOut = ExtractMapsData([sections |-> <<>>], TeamA, TeamB)
    /\ overallOut = ExtractOverallPlayerStats([sections |-> <<>>], TeamA, TeamB)
    /\ cell = EmptyCell /\ cellOut = EmptyDict
    /\ teams = <<>>
    /\ IdleRow /\ IdleRun /\ IdleBatch /\ IdleHeader /\ IdleIds /\ IdleExtras

SectionsWithSection ==
    /\ Len(sections) < MaxSections
    /\ \E id \in GameIds :
          ExtractSections(Append(sections, TaggedSection(id, Len(sections) + 1)))

NextSections == SectionsWithSection

SpecSections == InitSections /\ [][NextSections]_vars

\* The position in the document of the section a player_stats dict was built
\* from, read off the player name of its first record.
SourceOf(player_stats) ==
    CHOOSE k \in 1..Len(sections) : Dec(k) = player_stats[TeamA][1].player_name

\* C14: whatever the number and the order of the statistics sections, no
\* MapEntry is built from the section whose identifier is "all", the overall
\* player stats are built only from the section whose identifier is "all",
\* and the MapEntry records are in the relative order of their sections.
C14_AllSectionApart ==
    /\ mapsOut.ok /\ overallOut.ok
    /\ \A j \in 1..Len(mapsOut.val) :
          /\ mapsOut.val[j].player_stats[TeamA] # <<>>
          /\ sections[SourceOf(mapsOut.val[j].player_stats)].game_id # "all"
    /\ \A j, k \in 1..Len(mapsOut.val) :
          j < k => SourceOf(mapsOut.val[j].player_stats)
                       < SourceOf(mapsOut.val[k].player_stats)
    /\ IF \E k \in 1..Len(sections) : sections[k].game_id = "all"
       THEN /\ overallOut.val[TeamA] # <<>>
            /\ sections[SourceOf(overallOut.val)].game_id = "all"
       ELSE overallOut.val = [t \in {TeamA, TeamB} |-> <<>>]

\* A document whose "all" section stands between two map sections.
C14_Witness ==
    /\ Len(sections) = 3
    /\ sections[1].game_id = "1"
    /\ sections[2].game_id = "all"
    /\ sections[3].game_id = "2"
    /\ Len(mapsOut.val) = 2
    /\ SourceOf(mapsOut.val[2].player_stats) = 3
    /\ SourceOf(overallOut.val) = 2

-----------------------------------------------------------------------------
\* The order index of the map entries, under SpecMaps.

\* C15: the k-th entry of the sequence returned by _extract_maps_data has
\* map_order = k, also when sections of the document are skipped for lacking
\* a header or a map-info node.
C15_OrderIsPosition ==
    mapsOut.ok => \A k \in 1..Len(mapsOut.val) : mapsOut.val[k].map_order = k

\* A map section without a header followed by a complete one: the only entry
\* returned has map_order 2.
C15_Gap ==
    /\ Len(sections) = 2
    /\ IsMapSection(sections[1]) /\ ~sections[1].header
    /\ IsMapSection(sections[2]) /\ sections[2].header /\ sections[2].map
    /\ mapsOut.ok
    /\ Len(mapsOut.val) = 1
    /\ mapsOut.val[1].map_order = 2

\* What the code keeps of C15: map_order is the 1-based position of the
\* entry's section among the selected map sections, skipped ones counted; it
\* is the position in the returned sequence when no section is skipped.
OrderIsSectionIndex ==
    mapsOut.ok =>
        /\ \A j, k \in 1..Len(mapsOut.val) :
              j < k => mapsOut.val[j].map_order < mapsOut.val[k].map_order
        /\ \A k \in 1..Len(mapsOut.val) :
              /\ mapsOut.val[k].map_order \in 1..Len(MapSections(sections))
              /\ MapSections(sections)[mapsOut.val[k].map_order].header
              /\ MapSections(sections)[mapsOut.val[k].map_order].map
        /\ Len(EntrySections(sections)) = Len(MapSections(sections)) =>
              \A k \in 1..Len(mapsOut.val) : mapsOut.val[k].map_order = k

-----------------------------------------------------------------------------
\* SpecTables: the two section parsers applied to one statistics section (a
\* map section or the "all" section) with up to MaxTables stats tables of up
\* to MaxRows well-formed rows, for two different team names and for two
\* equal ones (a header without team names gives 'N/A' twice). The r-th row
\* of the t-th table carries the number 10 t + r as its player name.

MaxTables == 3
MaxRows == 5

TeamPairs == {<<TeamA, TeamB>>, <<NA, NA>>}

RowOfTable(t, r) == <<PlainCell(10 * t + r), PlainCell(0), PlainCell(1)>>

ExtractTables(secs) ==
    /\ sections' = secs
    /\ mapsOut' = ExtractMapsData([sections |-> secs], teams[1], teams[2])
    /\ overallOut' = ExtractOverallPlayerStats([sections |-> secs], teams[1], teams[2])
    /\ UNCHANGED <<cell, cellOut, row, style, rowOut, page, url, clock, results,
                   batch, hdr, hdrOut, teams, ids, extras>>

InitTables ==
    /\ teams \in TeamPairs
    /\ \E id \in {"all", "1"} :
          /\ sections = <<Section(id, TRUE, TRUE)>>
          /\ mapsOut = ExtractMapsData([sections |-> sections], teams[1], teams[2])
          /\ overallOut =
                 ExtractOverallPlayerStats([sections |-> sections], teams[1], teams[2])
    /\ cell = EmptyCell /\ cellOut = EmptyDict
    /\ IdleRow /\ IdleRun /\ IdleBatch /\ IdleHeader /\ IdleIds /\ IdleExtras

TablesWithTable ==
    /\ Len(sections[1].tables) < MaxTables
    /\ ExtractTables([sections EXCEPT ![1].tables = Append(@, Table(<<>>))])

TablesWithRow ==
    /\ sections[1].tables # <<>>
    /\ LET t == Len(sections[1].tables)
           r == Len(sections[1].tables[t].rows) + 1
       IN  /\ r <= MaxRows
           /\ ExtractTables([sections EXCEPT
                                ![1].tables[t].rows = Append(@, RowOfTable(t, r))])

NextTables == TablesWithTable \/ TablesWithRow

SpecTables == InitTables /\ [][NextTables]_vars

\* The player-stat dict of the one section of the document.
StatsOfSection ==
    IF sections[1].game_id = "all" THEN overallOut.val
    ELSE mapsOut.val[1].player_stats

\* The records of the rows of the t-th table of the section, in row order,
\* each with the given team name; none when the section has no t-th table.
RecordsOfTable(t, team_name) ==
    IF Len(sections[1].tables) < t THEN <<>>
    ELSE [r \in 1..Len(sections[1].tables[t].rows) |->
             ParsePlayerRowStats(sections[1].tables[t].rows[r],
                                 sections[1].game_id = "all", team_name).val]

\* C16: for every statistics section the records under team1's key are the
\* rows of the first stats table, one record per row in row order, each with
\* team1's name; those under team2's key are the rows of the second table
\* with team2's name; later tables are ignored, and a missing table leaves
\* the team's list empty.
C16_TablesByTeam ==
    /\ mapsOut.ok /\ overallOut.ok
    /\ StatsOfSection[teams[1]] = RecordsOfTable(1, teams[1])
    /\ StatsOfSection[teams[2]] = RecordsOfTable(2, teams[2])

\* Two tables of five rows each in a document without team names: the one
\* key 'N/A' holds the five records of the second table, and the records of
\* the first table are lost.
C16_Overwritten ==
    /\ teams = <<NA, NA>>
    /\ Len(sections[1].tables) = 2
    /\ Len(sections[1].tables[1].rows) = 5
    /\ Len(sections[1].tables[2].rows) = 5
    /\ DOMAIN StatsOfSection = {NA}
    /\ StatsOfSection[NA] = RecordsOfTable(2, NA)
    /\ StatsOfSection[NA] # RecordsOfTable(1, NA)

\* What the code keeps of C16: with two different team names the records are
\* stored as C16 says; every record carries the name of the key it is under.
TablesByTeamWhenNamesDiffer ==
    /\ teams[1] # teams[2] => C16_TablesByTeam
    /\ \A t \in DOMAIN StatsOfSection :
          \A k \in 1..Len(StatsOfSection[t]) : StatsOfSection[t][k].team_name = t

\* Two tables of five rows each under two different team names: five records
\* per team key.
FivePerTeam ==
    /\ teams = <<TeamA, TeamB>>
    /\ Len(sections[1].tables) = 2
    /\ Len(StatsOfSection[TeamA]) = 5
    /\ Len(StatsOfSection[TeamB]) = 5

-----------------------------------------------------------------------------
\* SpecAgent: _parse_player_row_stats applied to rows whose agent cell (the
\* first cell in per-map style, the second in overview style) holds up to
\* MaxIcons top-level elements: icons, and agent-badge wrappers that are empty
\* or hold one icon.

MaxIcons == 3

Img(cls, alt, title, src) ==
    [cls |-> cls, text |-> NoText, kids |-> <<>>, alt |-> alt, title |-> title, src |-> src]

ModAgent == <<"mod-agent">>

AgentFile(file) == AgentsDir \o file

\* An icon with a proper alt text and an agent image path.
IconJett ==
    Img(<<>>, <<<<"J", "e", "t", "t">>>>, <<>>,
        <<AgentFile(<<"j", "e", "t", "t", ".", "p", "n", "g">>)>>)

\* An icon of the agent class with an empty alt text and a title.
IconNeon == Img(ModAgent, <<NoText>>, <<<<"N", "e", "o", "n">>>>, <<>>)

\* An icon whose alt text has 20 characters.
IconLong ==
    Img(<<>>, <<[i \in 1..MaxAgentNameLen |-> "x"]>>, <<>>,
        <<AgentFile(<<"k", "i", "l", "l", "-", "j", "o", "y", ".", "p", "n", "g">>)>>)

\* An icon whose alt text is a path, in a directory named n under the agents path.
IconPath ==
    Img(<<>>, <<<<"a", "/", "b">>>>, <<>>,
        <<AgentFile(<<"n", "/", "a", ".", "p", "n", "g">>)>>)

\* An icon of the agent class whose alt text is the text 'N/A'.
IconNA == Img(ModAgent, <<NA>>, <<>>, <<>>)

\* An icon without alt and title, in a directory named x under the agents path.
IconDeep ==
    Img(<<>>, <<>>, <<>>, <<AgentFile(<<"x", "/", "y", ".", "p", "n", "g">>)>>)

\* An icon of the agent class whose alt text is a padded name.
IconPadded == Img(ModAgent, <<<<" ", "K", "a", "y", "o", " ">>>>, <<>>, <<>>)

\* An icon of the agent class whose alt text is one blank.
IconBlank == Img(ModAgent, <<<<" ">>>>, <<>>, <<>>)

\* An icon that has nothing to do with agents.
IconFlag == Img(<<>>, <<>>, <<>>, <<<<"/", "f", ".", "p", "n", "g">>>>)

\* An icon with an empty alt text and the bare agents path.
IconEmpty == Img(<<>>, <<NoText>>, <<>>, <<AgentFile(NoText)>>)

Icons ==
    {IconJett, IconNeon, IconLong, IconPath, IconNA, IconDeep, IconPadded,
     IconBlank, IconFlag, IconEmpty}

Wrapper(kids) == [cls |-> <<"stats-sq", "mod-agent", "small">>, text |-> NoText, kids |-> kids]

Wrappers ==
    {Wrapper(<<>>)} \cup
    {Wrapper(<<icon>>) : icon \in {IconJett, IconNA, IconFlag, IconEmpty, IconBlank}}

PlayerText == <<"p">>

AgentCell(kids) == [cls |-> <<>>, text |-> PlayerText, kids |-> kids]

\* The row whose agent cell holds the elements kids.
AgentRow(kids) ==
    IF style THEN <<AgentCell(<<>>), AgentCell(kids)>> ELSE <<AgentCell(kids)>>

AgentKids == row[Len(row)].kids

InitAgent ==
    /\ style \in BOOLEAN
    /\ row = AgentRow(<<>>)
    /\ rowOut = ParsePlayerRowStats(AgentRow(<<>>), style, TeamOfRow)
    /\ cell = EmptyCell /\ cellOut = EmptyDict
    /\ IdleMaps /\ IdleRun /\ IdleRest

AgentWithIcon ==
    /\ Len(AgentKids) < MaxIcons
    /\ \E icon \in Icons : ParseRow(AgentRow(Append(AgentKids, icon)))

AgentWithWrapper ==
    /\ Len(AgentKids) < MaxIcons
    /\ \E w \in Wrappers : ParseRow(AgentRow(Append(AgentKids, w)))

NextAgent == AgentWithIcon \/ AgentWithWrapper

SpecAgent == InitAgent /\ [][NextAgent]_vars

\* A name as C17 wants it: not empty, shorter than 20 characters, no slash.
ValidName(name) == name # NoText /\ Len(name) < 20 /\ "/" \notin Range(name)

AgentsOut == rowOut.val.agents

\* C17: in both row styles an icon's alt/title text is accepted as an agent
\* name only if it is valid, otherwise the name is derived from the icon's
\* source path; so every name in a record's agent sequence is not empty, is
\* shorter than 20 characters and contains no path separator.
C17_NamesValid ==
    rowOut.ok => \A k \in 1..Len(AgentsOut) : ValidName(AgentsOut[k])

\* An overview-style record whose agent sequence holds an empty name.
C17_EmptyName ==
    /\ style /\ rowOut.ok
    /\ \E k \in 1..Len(AgentsOut) : AgentsOut[k] = NoText

\* A per-map record whose name, derived from the source path, holds a slash.
PathInDerivedName ==
    /\ ~style /\ rowOut.ok
    /\ AgentsOut = <<<<"X", "/", "Y">>>>

\* The part of C17 that the code keeps: a per-map name is never empty and is
\* shorter than 20 characters, and it holds a slash only if it was derived
\* from the source path.
PerMapNamesChecked ==
    (~style /\ rowOut.ok) =>
        \A k \in 1..Len(AgentsOut) :
            /\ AgentsOut[k] # NoText
            /\ Len(AgentsOut[k]) < 20
            /\ "/" \in Range(AgentsOut[k]) =>
                   \E i \in 1..Len(Flatten(AgentKids)) :
                       /\ "src" \in DOMAIN Flatten(AgentKids)[i]
                       /\ Flatten(AgentKids)[i].src # <<>>

IsIcon(el) == "alt" \in DOMAIN el

\* The positions, in document order, of the elements of seq that satisfy P.
Positions(seq, P(_)) == {i \in 1..Len(seq) : P(seq[i])}

Least(I) == CHOOSE i \in I : \A j \in I : i <= j

IsWrapper(el) == ~IsIcon(el) /\ Carries(el, "mod-agent")
IsMarkedIcon(el) == IsIcon(el) /\ Carries(el, "mod-agent")
IsAgentDirIcon(el) == IsIcon(el) /\ el.src # <<>> /\ Contains(el.src[1], AgentsDir)

\* The icons inside the first agent-badge wrapper of the elements seq.
InFirstWrapper(seq) ==
    IF Positions(seq, IsWrapper) = {} THEN <<>>
    ELSE SelectSeq(Flatten(seq[Least(Positions(seq, IsWrapper))].kids), IsIcon)

\* The icon the priority chain of C18 settles on: <<>> if no step finds one.
ChosenIcon(seq) ==
    IF InFirstWrapper(seq) # <<>> THEN <<InFirstWrapper(seq)[1]>>
    ELSE IF Positions(seq, IsMarkedIcon) # {}
    THEN <<seq[Least(Positions(seq, IsMarkedIcon))]>>
    ELSE IF Positions(seq, IsAgentDirIcon) # {}
    THEN <<seq[Least(Positions(seq, IsAgentDirIcon))]>>
    ELSE <<>>

\* C18: in per-map style the agent is resolved from the icon inside the first
\* agent-badge wrapper if that wrapper holds an icon, otherwise from the first
\* icon of the agent class, otherwise from the first icon whose source path
\* lies in the agent icon directory; a later step is consulted only when the
\* earlier ones found no icon, and with no icon at all the agent is 'N/A'.
C18_PriorityChain ==
    (~style /\ rowOut.ok) =>
        IF ChosenIcon(Flatten(AgentKids)) = <<>> THEN rowOut.val.agent = NA
        ELSE rowOut.val.agent = AgentOfImg(ChosenIcon(Flatten(AgentKids))[1])

\* A per-map cell in which every step has an icon to offer, the wrapper last
\* in the document, and the wrapper's icon is the one that names the agent.
C18_Witness ==
    /\ ~style /\ rowOut.ok
    /\ AgentKids = <<IconDeep, IconPadded, Wrapper(<<IconJett>>)>>
    /\ rowOut.val.agent = <<"J", "e", "t", "t">>

\* A per-map cell whose only wrapper is empty: the icon of the agent class
\* names the agent.
WrapperWithoutIcon ==
    /\ ~style /\ rowOut.ok
    /\ AgentKids = <<IconJett, Wrapper(<<>>), IconPadded>>
    /\ rowOut.val.agent = <<"K", "a", "y", "o">>

\* A per-map cell without an agent icon: the agent is the sentinel.
NoAgentIcon ==
    /\ ~style /\ rowOut.ok
    /\ AgentKids = <<IconFlag>>
    /\ rowOut.val.agent = NA

\* C19: in either row style the agent sequence of a record never contains
\* the sentinel 'N/A'; when no agent is resolved the sequence is empty and the
\* agent field is the sentinel; when the sequence is not empty the agent field
\* is its first element.
C19_NoSentinel ==
    rowOut.ok =>
        /\ \A k \in 1..Len(AgentsOut) : AgentsOut[k] # NA
        /\ AgentsOut = <<>> => rowOut.val.agent = NA
        /\ AgentsOut # <<>> => rowOut.val.agent = AgentsOut[1]

\* An overview-style record whose agent sequence holds the sentinel, taken
\* from the alt text of a wrapper's icon.
C19_SentinelListed ==
    /\ style /\ rowOut.ok
    /\ AgentKids = <<Wrapper(<<IconJett>>), Wrapper(<<IconNA>>)>>
    /\ AgentsOut = <<<<"J", "e", "t", "t">>, NA>>

\* The part of C19 that the code keeps: the agent field is the first element
\* of the sequence, or the sentinel when the sequence is empty, and a per-map
\* sequence never holds the sentinel.
AgentIsFirstOfAgents ==
    rowOut.ok =>
        /\ AgentsOut = <<>> => rowOut.val.agent = NA
        /\ AgentsOut # <<>> => rowOut.val.agent = AgentsOut[1]
        /\ ~style => \A k \in 1..Len(AgentsOut) : AgentsOut[k] # NA

\* A per-map record whose name derived from the source path is the text of
\* the sentinel: the sequence is empty.
DerivedSentinelDropped ==
    /\ ~style /\ rowOut.ok
    /\ AgentKids = <<IconPath>>
    /\ rowOut.val.agent = NA /\ AgentsOut = <<>>

-----------------------------------------------------------------------------
\* SpecIds: the match-id extractors of MatchDetailsScraper, DetailedMatchScraper
\* and VLRMatchScraper applied to every URL text of up to MaxUrlLen characters
\* drawn from UrlChars.

MaxUrlLen == 6

UrlChars == {"/", "1", "2", "a"}

\* VLRMatchScraper.extract_match_id: match.group(1) if match else None.
VlrExtractMatchId(match_url) == Opt(ReSearchId(match_url), None)

ExtractIds(text) ==
    /\ url' = text
    /\ ids' = [details  |-> Return(ExtractMatchId(text)),
               detailed |-> Return(ExtractMatchIdFromUrl(text)),
               vlr      |-> Return(VlrExtractMatchId(text))]
    /\ UNCHANGED <<batch, hdr, hdrOut, overallOut, teams, extras, cell, cellOut, row, style,
                   rowOut, sections, mapsOut, page, clock, results>>

InitIds ==
    /\ url = NoText
    /\ ids = [details  |-> Return(ExtractMatchId(NoText)),
              detailed |-> Return(ExtractMatchIdFromUrl(NoText)),
              vlr      |-> Return(VlrExtractMatchId(NoText))]
    /\ page = EmptyDict /\ clock = 0 /\ results = <<>>
    /\ cell = EmptyCell /\ cellOut = EmptyDict
    /\ IdleRow /\ IdleMaps /\ IdleBatch /\ IdleHeader /\ IdleOverall /\ IdleExtras

UrlWithChar ==
    /\ Len(url) < MaxUrlLen
    /\ \E ch \in UrlChars : ExtractIds(Append(url, ch))

NextIds == UrlWithChar

SpecIds == InitIds /\ [][NextIds]_vars

\* The pieces of text between its slashes: text.split('/').
RECURSIVE Pieces(_)
Pieces(text) ==
    IF "/" \notin Range(text) THEN <<text>>
    ELSE LET i == CHOOSE k \in 1..Len(text) :
                      text[k] = "/" /\ \A j \in 1..(k - 1) : text[j] # "/"
         IN  <<SubSeq(text, 1, i - 1)>> \o Pieces(SubSeq(text, i + 1, Len(text)))

\* The segments of text that have a slash on both sides.
Segments(text) == SubSeq(Pieces(text), 2, Len(Pieces(text)) - 1)

AllDigits(seg) ==
    /\ seg # NoText
    /\ \A k \in 1..Len(seg) : seg[k] \in {"0", "1", "2", "3", "4", "5", "6", "7", "8", "9"}

\* The match identifier C20 describes: the first all-digit segment, else None.
FirstDigitSegment(text) ==
    IF SelectSeq(Segments(text), AllDigits) = <<>> THEN None
    ELSE SelectSeq(Segments(text), AllDigits)[1]

\* C20: for a URL with a segment made only of digits between two slashes the
\* match identifier is the digit string of the first such segment; for any
\* other URL it is None and no exception is raised; and the extractors of
\* MatchDetailsScraper, DetailedMatchScraper and VLRMatchScraper answer alike.
C20_MatchId ==
    /\ ids.details = Return(FirstDigitSegment(url))
    /\ ids.detailed = ids.details
    /\ ids.vlr = ids.details

\* A URL whose first segment is not a number and whose second is.
C20_Witness ==
    /\ url = <<"/", "2", "a", "/", "1", "/">>
    /\ ids.details = Return(<<"1">>)

\* A URL that ends in digits without a closing slash has no identifier.
UnclosedDigits ==
    /\ url = <<"a", "/", "1", "2">>
    /\ ids.vlr = Return(None)

\* A URL with two numeric segments: the first is the identifier.
TwoNumbers ==
    /\ url = <<"/", "2", "1", "/", "1", "/">>
    /\ ids.detailed = Return(<<"2", "1">>)

-----------------------------------------------------------------------------
\* The value normalizers: DetailedMatchScraper._clean_stat_value,
\* VLRMatchScraper.safe_int and safe_float, VLRDatabase._safe_int and
\* _safe_float. A Python value is a record tagged by its type:
\*   [t |-> "None"]                    None,
\*   [t |-> "str", v |-> text]         a text,
\*   [t |-> "int", n |-> n]            an integer,
\*   [t |-> "float", num, den]         the finite float num / den,
\*   [t |-> "inf"], [t |-> "nan"]      the floats inf (of either sign) and nan,
\*   [t |-> "list", items |-> <<...>>] a list of integers.
\* The texts of the model hold no exponent, no underscore and no white space
\* other than the blank.

PyNone == [t |-> "None"]
PyStr(text) == [t |-> "str", v |-> text]
PyInt(n) == [t |-> "int", n |-> n]
PyFloat(num, den) == [t |-> "float", num |-> num, den |-> den]
PyInf == [t |-> "inf"]
PyNan == [t |-> "nan"]
PyList(items) == [t |-> "list", items |-> items]

\* re.sub(r'\s+', ' ', text).
RECURSIVE CollapseBlanks(_)
CollapseBlanks(text) ==
    IF Len(text) < 2 THEN text
    ELSE IF text[1] = " " /\ text[2] = " " THEN CollapseBlanks(Tail(text))
    ELSE <<text[1]>> \o CollapseBlanks(Tail(text))

\* _clean_text on a text.
CleanText(text) ==
    IF text = NoText THEN NoText ELSE StripBlanks(CollapseBlanks(text))

\* int(text): white space around an optional sign and digits.
IntOf(text) == ParseInt(StripBlanks(text))

RECURSIVE Pow10(_)
Pow10(n) == IF n = 0 THEN 1 ELSE 10 * Pow10(n - 1)

Signed(text) == text # NoText /\ text[1] \in {"+", "-"}

Unsigned(text) == IF Signed(text) THEN Tail(text) ELSE text

AllDigitChars(text) == \A i \in 1..Len(text) : IsDigit(text[i])

\* The float that the digits `whole` and the decimals `frac` denote.
DecimalOf(negative, whole, frac) ==
    IF AllDigitChars(whole) /\ AllDigitChars(frac) /\ Len(whole) + Len(frac) > 0
    THEN Return(PyFloat((IF negative THEN 0 - 1 ELSE 1) * DigitsValue(whole \o frac),
                        Pow10(Len(frac))))
    ELSE Raise("ValueError")

\* What precedes the first dot of a text, and what follows it.
AfterDot(text) == SubSeq(text, Len(BeforeDot(text)) + 2, Len(text))

FloatOfBody(negative, body) ==
    IF Lower(body) \in {<<"i", "n", "f">>, <<"i", "n", "f", "i", "n", "i", "t", "y">>}
    THEN Return(PyInf)
    ELSE IF Lower(body) = <<"n", "a", "n">> THEN Return(PyNan)
    ELSE DecimalOf(negative, BeforeDot(body), AfterDot(body))

FloatOfStripped(text) == FloatOfBody(Signed(text) /\ text[1] = "-", Unsigned(text))

\* float(text).
FloatOf(text) == FloatOfStripped(StripBlanks(text))

\* x / 100 on a float.
Div100(x) == IF x.t = "float" THEN PyFloat(x.num, x.den * 100) ELSE x

\* int(x) on a float: truncation towards zero; inf and nan raise.
TruncOf(x) ==
    IF x.t = "inf" THEN Raise("OverflowError")
    ELSE IF x.t = "nan" THEN Raise("ValueError")
    ELSE IF x.num >= 0 THEN Return(PyInt(x.num \div x.den))
    ELSE Return(PyInt(0 - ((0 - x.num) \div x.den)))

\* The position of the first ch in a text that holds one.
RECURSIVE FirstAt(_, _)
FirstAt(text, ch) == IF Head(text) = ch THEN 1 ELSE 1 + FirstAt(Tail(text), ch)

\* text.split(ch).
RECURSIVE Split(_, _)
Split(text, ch) ==
    IF ch \notin Range(text) THEN <<text>>
    ELSE <<SubSeq(text, 1, FirstAt(text, ch) - 1)>>
         \o Split(SubSeq(text, FirstAt(text, ch) + 1, Len(text)), ch)

\* [int(x) for x in pieces], or the original text on a ValueError.
IntsOrText(pieces, text) ==
    IF \A k \in 1..Len(pieces) : IntOf(pieces[k]).ok
    THEN PyList([k \in 1..Len(pieces) |-> IntOf(pieces[k]).val])
    ELSE PyStr(text)

\* float(value.replace('%', '')) / 100, or None on a ValueError.
PercentOf(parsed) == IF parsed.ok THEN Div100(parsed.val) ELSE PyNone

\* float(value), or the text on a ValueError.
FloatOrText(parsed, text) == IF parsed.ok THEN parsed.val ELSE PyStr(text)

\* int(value), or the text on a ValueError.
IntOrText(parsed, text) == IF parsed.ok THEN PyInt(parsed.val) ELSE PyStr(text)

\* _clean_stat_value after the text has been cleaned.
CleanedStatValue(text) ==
    IF "%" \in Range(text) THEN PercentOf(FloatOf(Remove(text, <<"%">>)))
    ELSE IF "/" \in Range(text) THEN IntsOrText(Split(text, "/"), text)
    ELSE IF "." \in Range(text) THEN FloatOrText(FloatOf(text), text)
    ELSE IntOrText(IntOf(text), text)

\* _clean_stat_value.
CleanStatValue(value) ==
    IF value.t = "None" \/ value.v = NoText \/ value.v = <<"-">> THEN Return(PyNone)
    ELSE Return(CleanedStatValue(CleanText(value.v)))

\* A safe_int that answers None where the conversion fails.
SafeIntOrNone(value) ==
    IF value.t # "str" THEN Return(PyNone)
    ELSE IF IntOf(Remove(value.v, <<",">>)).ok
    THEN Return(PyInt(IntOf(Remove(value.v, <<",">>)).val))
    ELSE Return(PyNone)

\* VLRMatchScraper.safe_int: None has no replace (AttributeError).
SafeInt(value) ==
    IF value.t # "str" THEN Return(PyInt(0))
    ELSE IF IntOf(Remove(value.v, <<",">>)).ok
    THEN Return(PyInt(IntOf(Remove(value.v, <<",">>)).val))
    ELSE Return(PyInt(0))

\* VLRMatchScraper.safe_float.
SafeFloat(value) ==
    IF value.t # "str" THEN Return(PyFloat(0, 1))
    ELSE IF FloatOf(Remove(value.v, <<",">>)).ok
    THEN Return(FloatOf(Remove(value.v, <<",">>)).val)
    ELSE Return(PyFloat(0, 1))

\* `value is None or value == '' or value == 'N/A'`.
IsAbsent(value) == value.t = "None" \/ (value.t = "str" /\ value.v \in {NoText, NA})

\* `except (ValueError, TypeError): return None`.
OrNone(outcome) ==
    IF ~outcome.ok /\ outcome.exc \in {"ValueError", "TypeError"} THEN Return(PyNone)
    ELSE outcome

\* int(float(str(value))).
IntOfFloat(parsed) == IF parsed.ok THEN TruncOf(parsed.val) ELSE parsed

\* str(value) of a text or an integer.
StrOf(value) ==
    IF value.t = "str" THEN value.v
    ELSE IF value.n < 0 THEN <<"-">> \o Dec(0 - value.n) ELSE Dec(value.n)

\* VLRDatabase._safe_int.
DbSafeInt(value) ==
    IF IsAbsent(value) THEN Return(PyNone)
    ELSE OrNone(IntOfFloat(FloatOf(StrOf(value))))

\* VLRDatabase._safe_float.
DbSafeFloat(value) ==
    IF IsAbsent(value) THEN Return(PyNone)
    ELSE IF "%" \in Range(value.v) THEN OrNone(FloatOf(Remove(value.v, <<"%">>)))
    ELSE OrNone(FloatOf(value.v))

\* SpecNorm: the normalizers applied to None and to every text of up to
\* MaxValueLen characters drawn from ValueChars, and to the words of
\* ValueWords.

MaxValueLen == 4

ValueChars == {"0", "1", "-", ",", ".", "%", "/", " ", "a"}

ValueWords ==
    {<<"i", "n", "f">>, <<"-", "I", "n", "f">>, <<"n", "a", "n">>, NA,
     <<"i", "n", "f", "%">>, <<"1", "/", "0", "/", "1">>, <<"1", " ", "/", " ", "0">>}

Normalize(value) ==
    /\ raw' = value
    /\ normOut' = [clean      |-> CleanStatValue(value),
                   safe_int   |-> SafeInt(value),
                   safe_float |-> SafeFloat(value),
                   db_int     |-> DbSafeInt(value),
                   db_float   |-> DbSafeFloat(value)]
    /\ UNCHANGED <<parts, batch, hdr, hdrOut, overallOut, teams, ids, inst, calls, db, saves>>

InitNorm ==
    /\ raw = PyStr(NoText)
    /\ normOut = [clean      |-> CleanStatValue(PyStr(NoText)),
                  safe_int   |-> SafeInt(PyStr(NoText)),
                  safe_float |-> SafeFloat(PyStr(NoText)),
                  db_int     |-> DbSafeInt(PyStr(NoText)),
                  db_float   |-> DbSafeFloat(PyStr(NoText))]
    /\ IdleParts /\ IdleBatch /\ IdleHeader /\ IdleOverall /\ IdleIds /\ IdleShared /\ IdleDb

NormalizeNone == raw = PyStr(NoText) /\ Normalize(PyNone)

NormalizeWord == raw = PyStr(NoText) /\ \E w \in ValueWords : Normalize(PyStr(w))

NormalizeWithChar ==
    /\ raw.t = "str"
    /\ raw.v \notin ValueWords
    /\ Len(raw.v) < MaxValueLen
    /\ \E ch \in ValueChars : Normalize(PyStr(Append(raw.v, ch)))

NextNorm == NormalizeNone \/ NormalizeWord \/ NormalizeWithChar

SpecNorm == InitNorm /\ [][NextNorm]_vars

Normalizers == {"clean", "safe_int", "safe_float", "db_int", "db_float"}

\* C21: the value normalizers (_clean_stat_value, safe_int, safe_float and
\* the database's _safe_int, _safe_float) are total: for None, the empty
\* string, "-" and any other text they return a value without raising, and
\* an input that is the sentinel None is returned as the sentinel.
C21_Total ==
    /\ \A f \in Normalizers : normOut[f].ok
    /\ raw = PyNone => \A f \in Normalizers : normOut[f] = Return(PyNone)

\* The text 'inf' makes _safe_int raise.
C21_Raised ==
    /\ raw = PyStr(<<"i", "n", "f">>)
    /\ normOut.db_int = Raise("OverflowError")

\* The sentinel None comes back from safe_int as the number 0.
SentinelBecomesZero ==
    /\ raw = PyNone
    /\ normOut.safe_int = Return(PyInt(0))
    /\ normOut.safe_float = Return(PyFloat(0, 1))

\* The part of C21 that the code keeps: _clean_stat_value, safe_int,
\* safe_float and _safe_float never raise; _clean_stat_value and the two
\* database helpers return None for None; and _safe_int raises only for a
\* text that denotes an infinite float.
TotalButInfinity ==
    /\ \A f \in Normalizers \ {"db_int"} : normOut[f].ok
    /\ raw = PyNone => \A f \in {"clean", "db_int", "db_float"} : normOut[f] = Return(PyNone)
    /\ ~normOut.db_int.ok =>
           /\ normOut.db_int.exc = "OverflowError"
           /\ normOut.safe_float = Return(PyInf)

\* The text without its grouping separators and the blanks around it.
Ungrouped(text) == StripBlanks(SelectSeq(text, LAMBDA ch : ch # ","))

Digits == {"0", "1", "2", "3", "4", "5", "6", "7", "8", "9"}

\* A text that denotes an integer: an optional sign and one or more digits.
IntegerText(text) ==
    \/ text # NoText /\ Range(text) \subseteq Digits
    \/ /\ Len(text) > 1 /\ text[1] \in {"+", "-"}
       /\ Range(Tail(text)) \subseteq Digits

IntegerValue(text) ==
    IF text[1] = "-" THEN 0 - DigitsValue(Tail(text))
    ELSE IF text[1] = "+" THEN DigitsValue(Tail(text))
    ELSE DigitsValue(text)

\* What integer normalization is to return for a text, as C22 has it.
ToInt(text) ==
    IF IntegerText(Ungrouped(text)) THEN PyInt(IntegerValue(Ungrouped(text)))
    ELSE PyNone

\* A text that is no decimal, no percentage and no ratio.
PlainText(value) == value.t = "str" /\ Range(value.v) \cap {".", "%", "/"} = {}

\* C22: integer normalization strips grouping separators before parsing and
\* returns the sentinel, never the raw text and never a number such as 0,
\* when the input is empty, is "-" or does not parse as a number; so a parsed
\* zero is always distinguishable from an absent or unparsable value.
C22_IntOrSentinel ==
    PlainText(raw) =>
        /\ normOut.clean = Return(ToInt(raw.v))
        /\ normOut.safe_int = Return(ToInt(raw.v))

\* An unparsable text: safe_int answers 0, as it does for the text '0', and
\* _clean_stat_value answers the text itself.
C22_ZeroForText ==
    /\ raw = PyStr(<<"a">>)
    /\ normOut.safe_int = Return(PyInt(0))
    /\ normOut.clean = Return(PyStr(<<"a">>))

\* A text with a grouping separator is not parsed by _clean_stat_value.
GroupedKept ==
    /\ raw = PyStr(<<"1", ",", "0">>)
    /\ normOut.clean = Return(PyStr(<<"1", ",", "0">>))
    /\ normOut.safe_int = Return(PyInt(10))

\* The part of C22 that the code keeps: a text that denotes an integer once
\* its grouping separators are stripped is parsed to that integer by
\* safe_int, and by _clean_stat_value if it has no separators; and
\* _clean_stat_value answers the sentinel for the empty text and for "-".
IntParsedWhenParsable ==
    PlainText(raw) =>
        /\ ToInt(raw.v) # PyNone => normOut.safe_int = Return(ToInt(raw.v))
        /\ (ToInt(raw.v) # PyNone /\ "," \notin Range(raw.v)) =>
               normOut.clean = Return(ToInt(raw.v))
        /\ raw.v \in {NoText, <<"-">>} => normOut.clean = Return(PyNone)

\* The pieces of a text between its slashes, each without the blanks around it.
Parts(text) == [k \in 1..Len(Pieces(text)) |-> StripBlanks(Pieces(text)[k])]

\* A text that splits on "/" into two integer parts.
RatioText(text) ==
    /\ Len(Parts(text)) = 2
    /\ IntegerText(Parts(text)[1])
    /\ IntegerText(Parts(text)[2])

\* C23: for a text that contains "/" and no percent sign, ratio normalization
\* returns exactly two integers when the text splits on "/" into two integer
\* parts, and otherwise returns the original text unchanged, never the
\* sentinel and never a sequence of another length.
C23_RatioPair ==
    (raw.t = "str" /\ "/" \in Range(raw.v) /\ "%" \notin Range(raw.v)) =>
        IF RatioText(raw.v)
        THEN normOut.clean =
                 Return(PyList(<<IntegerValue(Parts(raw.v)[1]), IntegerValue(Parts(raw.v)[2])>>))
        ELSE normOut.clean = Return(raw)

\* A text of three integer parts comes back as a sequence of three integers.
C23_Triple ==
    /\ raw = PyStr(<<"1", "/", "0", "/", "1">>)
    /\ normOut.clean = Return(PyList(<<1, 0, 1>>))

\* A text that is no ratio comes back without the blanks around it.
CleanedNotOriginal ==
    /\ raw = PyStr(<<" ", "a", "/", "1">>)
    /\ normOut.clean = Return(PyStr(<<"a", "/", "1">>))

\* The part of C23 that the code keeps: a text of two integer parts gives the
\* two integers; any other text gives a text or a sequence of integers, one
\* for every part, and never the sentinel.
PairWhenTwoIntegers ==
    (raw.t = "str" /\ "/" \in Range(raw.v) /\ "%" \notin Range(raw.v)) =>
        /\ normOut.clean.ok
        /\ normOut.clean.val.t \in {"str", "list"}
        /\ RatioText(raw.v) =>
               normOut.clean.val =
                   PyList(<<IntegerValue(Parts(raw.v)[1]), IntegerValue(Parts(raw.v)[2])>>)
        /\ normOut.clean.val.t = "list" => Len(normOut.clean.val.items) = Len(Parts(raw.v))
        /\ normOut.clean.val.t = "str" => normOut.clean.val.v = CleanText(raw.v)

-----------------------------------------------------------------------------
\* Claims on get_match_details and absent sections (specification Spec).

NoMapSection == \A s \in 1..Len(page.sections) : page.sections[s].game_id \in {"", "all"}

NoAllSection == \A s \in 1..Len(page.sections) : page.sections[s].game_id # "all"

\* The record has an empty collection of player records for both of its teams.
EmptyOverall(rec) ==
    /\ rec.teams.team1.name \in DOMAIN rec.overall_player_stats
    /\ rec.teams.team2.name \in DOMAIN rec.overall_player_stats
    /\ \A name \in DOMAIN rec.overall_player_stats : rec.overall_player_stats[name] = <<>>

\* What C24 says of one returned value.
AbsenceKept(out) ==
    /\ (NoMapSection \/ NoAllSection) => out.ok /\ DOMAIN out.val # {}
    /\ NoMapSection => out.val.maps = <<>>
    /\ NoAllSection => EmptyOverall(out.val)

\* C24: for every document that has no per-map section and/or no "all"
\* section, get_match_details still returns a Match record: the map sequence
\* is empty when there is no per-map section, and the overall stats hold an
\* empty collection for each of the two teams when there is no "all" section.
C24_AbsentSections == \A k \in Parsed : AbsenceKept(results[k].out)

\* A page without a per-map section whose "all" section has a row of one
\* cell: the call returns the empty record.
C24_Emptied ==
    \E k \in Parsed :
        /\ page.sections = <<OneCellAll>>
        /\ results[k].out = Return(EmptyDict)

\* The part of C24 that the code keeps: it holds of every page whose sections
\* are well formed.
AbsentSectionsWhenWellFormed ==
    (\A s \in 1..Len(page.sections) : ~Malformed(page.sections[s]))
        => C24_AbsentSections

\* A page with no section at all, parsed into a record with no map and no
\* player record.
NothingToExtract ==
    \E k \in Parsed :
        /\ page.sections = <<>>
        /\ DOMAIN results[k].out.val # {}
        /\ results[k].out.val.maps = <<>>
        /\ EmptyOverall(results[k].out.val)

\* A page with a map section and no "all" section, parsed into a record with
\* one map and no overall player record.
MapWithoutOverall ==
    \E k \in Parsed :
        /\ page.sections = <<GoodMap>>
        /\ DOMAIN results[k].out.val # {}
        /\ Len(results[k].out.val.maps) = 1
        /\ EmptyOverall(results[k].out.val)

\* A Match record with no map and no player record.
NoMapsNoPlayers(out) ==
    /\ out.ok /\ DOMAIN out.val # {}
    /\ out.val.maps = <<>>
    /\ EmptyOverall(out.val)

EmptyPage == page.sections = <<>>

\* C25: a call handed an already-fetched document that is empty performs no
\* retrieval and returns a Match record with zero maps and zero player
\* records; and the result of a call whose retrieval failed differs from the
\* result of a call that fetched an empty document successfully.
C25_EmptyDocument ==
    /\ \A k \in 1..Len(results) :
          results[k].html = EmptyHtml =>
              ~results[k].fetched /\ NoMapsNoPlayers(results[k].out)
    /\ EmptyPage =>
          \A i, j \in 1..Len(results) :
              (results[i].fetched /\ ~results[i].parsed /\ results[j].fetched /\ results[j].parsed)
                  => results[i].out # results[j].out

\* A call handed the empty string that requested the page, met a timeout and
\* returned the empty record.
C25_Fetched ==
    \E k \in 1..Len(results) :
        /\ results[k].html = EmptyHtml
        /\ results[k].fetched /\ ~results[k].parsed
        /\ results[k].out = Return(EmptyDict)

\* A call handed the empty string that returned the maps of the page it
\* fetched.
FetchedPageReturned ==
    \E k \in 1..Len(results) :
        /\ results[k].html = EmptyHtml
        /\ results[k].out.ok /\ DOMAIN results[k].out.val # {}
        /\ Len(results[k].out.val.maps) = 1

\* The part of C25 that the code keeps: a failed retrieval gives the empty
\* record, a successfully fetched empty document gives a Match record with
\* zero maps and zero player records.
FailureApartFromEmptyPage ==
    \A k \in 1..Len(results) :
        /\ (results[k].fetched /\ ~results[k].parsed) => results[k].out = Return(EmptyDict)
        /\ (results[k].fetched /\ results[k].parsed /\ EmptyPage)
               => NoMapsNoPlayers(results[k].out)

\* A run with a failed retrieval and a successful retrieval of an empty page.
BothKindsOfCall ==
    /\ EmptyPage
    /\ \E i, j \in 1..Len(results) :
          /\ results[i].fetched /\ ~results[i].parsed
          /\ results[j].fetched /\ results[j].parsed

-----------------------------------------------------------------------------
\* SpecShared: MaxParses calls of get_match_details on one MatchDetailsScraper
\* instance, each for a document of its own, their statements interleaved in
\* every order. A call is a record of its arguments and locals:
\*   match_url, html_content   the arguments,
\*   served        the document the URL serves,
\*   response      <<>>, or <<the outcome of the request>>,
\*   soup          <<>>, or <<the document parsed>>,
\*   header_info   <<>>, or <<the dict of _extract_match_header_info>>,
\*   out           <<>>, or <<what the call returned>>,
\*   pc            "start", "header", "rest" or "done".

MaxParses == 2

\* __init__.
NewInstance ==
    [base_url |-> <<"v", "l", "r">>,
     headers  |-> [UserAgent |-> <<"M", "o", "z">>]]

\* An instance on which a call leaves the names of the page it parsed.
SelfRemembering(fields, soup) == [fields EXCEPT !.base_url = soup.header.team1]

\* The attributes after the statements of a call that work on soup: neither
\* get_match_details nor a sub-parser assigns to an attribute of self.
SelfAfter(fields, soup) == fields

\* requests.get(match_url, headers=self.headers, timeout=15) followed by
\* raise_for_status(): the document served, or a request exception.
Request(served, headers) == Responses(served)

SharedDocs ==
    {[header |-> FullHeader, sections |-> <<GoodMap, GoodAll>>],
     [header |-> BareHeader, sections |-> <<GoodAll>>],
     [header |-> FullHeader, sections |-> <<OneCellAll>>],
     [header |-> BareHeader, sections |-> <<>>]}

NewCall(served, html_content) ==
    [match_url |-> <<"/", "4", "2", "/", "a">>, html_content |-> html_content,
     served |-> served, response |-> <<>>, soup |-> <<>>, header_info |-> <<>>,
     out |-> <<>>, pc |-> "start"]

InitShared ==
    /\ inst = NewInstance
    /\ \E docs \in [1..MaxParses -> SharedDocs] :
       \E given \in [1..MaxParses -> BOOLEAN] :
          /\ \A i, j \in 1..MaxParses : i # j => docs[i] # docs[j]
          /\ calls = [t \in 1..MaxParses |->
                         NewCall(docs[t], IF given[t] THEN docs[t] ELSE NoHtml)]
    /\ IdleParts /\ IdleBatch /\ IdleHeader /\ IdleOverall /\ IdleIds /\ IdleNorm /\ IdleDb

SharedStep(t, call, fields) ==
    /\ calls' = [calls EXCEPT ![t] = call]
    /\ inst' = fields
    /\ UNCHANGED <<parts, batch, hdr, hdrOut, overallOut, teams, ids, raw, normOut, db, saves>>

\* `if html_content: soup = BeautifulSoup(html_content, 'html.parser')`.
MakeSoup(t) ==
    /\ calls[t].pc = "start"
    /\ Truthy(calls[t].html_content)
    /\ SharedStep(t, [calls[t] EXCEPT !.soup = <<calls[t].html_content>>, !.pc = "header"],
                  inst)

\* The else branch: the request, and the soup of the response or the return
\* of the except clause.
FetchSoup(t) ==
    /\ calls[t].pc = "start"
    /\ ~Truthy(calls[t].html_content)
    /\ \E response \in Request(calls[t].served, inst.headers) :
          SharedStep(t,
                     IF response.ok
                     THEN [calls[t] EXCEPT !.response = <<response>>,
                                           !.soup = <<response.val>>, !.pc = "header"]
                     ELSE [calls[t] EXCEPT !.response = <<response>>,
                                           !.out = <<HandleErrors(response)>>, !.pc = "done"],
                     inst)

\* header_info = self._extract_match_header_info(soup).
HeaderStep(t) ==
    /\ calls[t].pc = "header"
    /\ SharedStep(t, [calls[t] EXCEPT
                         !.header_info = <<ExtractMatchHeaderInfo(calls[t].soup[1])>>,
                         !.pc = "rest"],
                  SelfAfter(inst, calls[t].soup[1]))

\* The team names, the match_data dict with the maps and the overall stats,
\* and the return of the dict or of an except clause.
RestStep(t) ==
    /\ calls[t].pc = "rest"
    /\ SharedStep(t, [calls[t] EXCEPT
                         !.out = <<HandleErrors(WithHeader(calls[t].match_url, calls[t].soup[1],
                                                           clock, calls[t].header_info[1]))>>,
                         !.pc = "done"],
                  SelfAfter(inst, calls[t].soup[1]))

NextShared ==
    \E t \in 1..MaxParses : MakeSoup(t) \/ FetchSoup(t) \/ HeaderStep(t) \/ RestStep(t)

SpecShared == InitShared /\ [][NextShared]_vars

\* What the call returns when it runs alone, with the response it received.
Alone(call) ==
    GetMatchDetails(call.match_url, call.html_content,
                    IF call.response = <<>> THEN Raise("Timeout") ELSE call.response[1],
                    clock)

\* C26: a parse reads and writes no state shared between parses:
\* get_match_details and its sub-parsers leave every attribute of the scraper
\* instance unchanged, and under any interleaving of two parses of different
\* documents on the same instance each parse returns the record it returns
\* when it runs alone.
C26_NoSharedState ==
    /\ inst = NewInstance
    /\ \A t \in 1..MaxParses :
          calls[t].pc = "done" => calls[t].out = <<Alone(calls[t])>>

\* Two calls on the same instance, both done, that returned different Match
\* records.
C26_Witness ==
    /\ \A t \in 1..MaxParses : calls[t].pc = "done"
    /\ DOMAIN calls[1].out[1].val # {}
    /\ DOMAIN calls[2].out[1].val # {}
    /\ calls[1].out # calls[2].out

-----------------------------------------------------------------------------
\* VLRDatabase.save_detailed_match on the detailed_matches table. The table
\* is a record
\*   rows   the set of its rows, each a record of the columns id, match_id,
\*          team1_name, team2_name, team1_score, team2_score, final_score,
\*          maps_played and match_url (the other columns are copied from
\*          match_data like match_url),
\*   seq    the largest id handed out so far (AUTOINCREMENT).
\* match_data is a dict from keys to Python values.

RequiredFields == {"match_id", "team1_name", "team2_name", "team1_score", "team2_score"}

\* The validation loop: a required field is missing or None.
MissingRequired(match_data) ==
    \E field \in RequiredFields :
        IF field \notin DOMAIN match_data THEN TRUE ELSE match_data[field] = PyNone

\* match_data.get(key, default).
Get(match_data, key, default) ==
    IF key \in DOMAIN match_data THEN match_data[key] ELSE default

\* The text an f-string puts for a value.
Formatted(value) == IF value.t = "None" THEN None ELSE StrOf(value)

\* The match_record dict, from the outcomes of the three _safe_int calls.
MatchRecordOf(match_data, team1_score, team2_score, maps_played) ==
    IF ~team1_score.ok THEN team1_score
    ELSE IF ~team2_score.ok THEN team2_score
    ELSE IF ~maps_played.ok THEN maps_played
    ELSE Return([match_id    |-> match_data.match_id,
                 team1_name  |-> match_data.team1_name,
                 team2_name  |-> match_data.team2_name,
                 team1_score |-> team1_score.val,
                 team2_score |-> team2_score.val,
                 final_score |-> Get(match_data, "final_score",
                                     PyStr(Formatted(match_data.team1_score) \o <<":">>
                                           \o Formatted(match_data.team2_score))),
                 maps_played |-> maps_played.val,
                 match_url   |-> Get(match_data, "match_url", PyNone)])

\* The row of a match_record, with the id the table hands out.
RowOf(match_record, id) ==
    [id          |-> id,
     match_id    |-> match_record.match_id,
     team1_name  |-> match_record.team1_name,
     team2_name  |-> match_record.team2_name,
     team1_score |-> match_record.team1_score,
     team2_score |-> match_record.team2_score,
     final_score |-> match_record.final_score,
     maps_played |-> match_record.maps_played,
     match_url   |-> match_record.match_url]

\* A plain INSERT that the table's UNIQUE constraint does not stop.
InsertAlways(table, match_record) ==
    [rows |-> table.rows \cup {RowOf(match_record, table.seq + 1)},
     seq  |-> table.seq + 1]

\* INSERT OR REPLACE with match_id UNIQUE: the row that holds the match_id is
\* deleted and the new row is inserted under a new id.
InsertOrReplace(table, match_record) ==
    [rows |-> {r \in table.rows : r.match_id # match_record.match_id}
                  \cup {RowOf(match_record, table.seq + 1)},
     seq  |-> table.seq + 1]

\* The statements of the try block: the outcome holds the table after them.
SaveBody(table, match_data) ==
    IF MissingRequired(match_data) THEN Raise("ValueError")
    ELSE IF ~MatchRecordOf(match_data, DbSafeInt(match_data.team1_score),
                           DbSafeInt(match_data.team2_score),
                           DbSafeInt(Get(match_data, "maps_played", PyInt(0)))).ok
    THEN MatchRecordOf(match_data, DbSafeInt(match_data.team1_score),
                       DbSafeInt(match_data.team2_score),
                       DbSafeInt(Get(match_data, "maps_played", PyInt(0))))
    ELSE Return(InsertOrReplace(table,
                    MatchRecordOf(match_data, DbSafeInt(match_data.team1_score),
                                  DbSafeInt(match_data.team2_score),
                                  DbSafeInt(Get(match_data, "maps_played", PyInt(0)))).val))

\* save_detailed_match: True and the table committed, or False and the table
\* as it was (`except Exception`, and the rollback of the with block).
SaveDetailedMatch(table, match_data) ==
    IF SaveBody(table, match_data).ok
    THEN [ret |-> TRUE, table |-> SaveBody(table, match_data).val]
    ELSE [ret |-> FALSE, table |-> table]

\* SpecDb: up to MaxSaves calls of save_detailed_match on a new database.

MaxSaves == 3

MatchIds == {PyStr(<<"1">>), PyStr(<<"2">>)}

ScoreValues == {PyInt(1), PyInt(2), PyStr(<<"x">>), PyStr(<<"i", "n", "f">>)}

\* A match_data with every required field.
FullData(match_id, team1_score) ==
    [match_id |-> match_id, team1_name |-> PyStr(TeamA), team2_name |-> PyStr(TeamB),
     team1_score |-> team1_score, team2_score |-> PyInt(0),
     match_url |-> PyStr(<<"/">> \o match_id.v \o <<"/">>)]

\* d without the key.
Without(d, key) == [k \in {x \in DOMAIN d : x # key} |-> d[k]]

MatchDatas ==
    {FullData(m, sc) : m \in MatchIds, sc \in ScoreValues}
        \cup {Without(FullData(PyStr(<<"1">>), PyInt(1)), f) : f \in RequiredFields}
        \cup {[FullData(PyStr(<<"1">>), PyInt(1)) EXCEPT ![f] = PyNone] : f \in RequiredFields}

InitDb ==
    /\ db = [rows |-> {}, seq |-> 0]
    /\ saves = <<>>
    /\ IdleParts /\ IdleBatch /\ IdleHeader /\ IdleOverall /\ IdleIds /\ IdleNorm
    /\ IdleShared

Save(match_data) ==
    /\ db' = SaveDetailedMatch(db, match_data).table
    /\ saves' = Append(saves, [match_data |-> match_data,
                               ret |-> SaveDetailedMatch(db, match_data).ret,
                               before |-> db, after |-> db'])
    /\ UNCHANGED <<parts, batch, hdr, hdrOut, overallOut, teams, ids, raw, normOut,
                   inst, calls>>

SaveFull ==
    /\ Len(saves) < MaxSaves
    /\ \E match_data \in MatchDatas : ~MissingRequired(match_data) /\ Save(match_data)

SaveLacking ==
    /\ Len(saves) < MaxSaves
    /\ \E match_data \in MatchDatas : MissingRequired(match_data) /\ Save(match_data)

NextDb == SaveFull \/ SaveLacking

SpecDb == InitDb /\ [][NextDb]_vars

\* A match_data that lacks a required field: the key is missing or None.
Lacking(match_data) ==
    \E f \in {"match_id", "team1_name", "team2_name", "team1_score", "team2_score"} :
        IF f \in DOMAIN match_data THEN match_data[f] = PyNone ELSE TRUE

\* The successful saves made for a match_id.
SavedFor(match_id) ==
    {k \in 1..Len(saves) : saves[k].ret /\ saves[k].match_data.match_id = match_id}

Latest(K) == CHOOSE k \in K : \A j \in K : j <= k

\* The row carries what the match_data handed over: the names, the URL and
\* the scores given as integers.
Carried(r, match_data) ==
    /\ r.team1_name = match_data.team1_name
    /\ r.team2_name = match_data.team2_name
    /\ r.match_url = match_data.match_url
    /\ match_data.team1_score.t = "int" => r.team1_score = match_data.team1_score
    /\ match_data.team2_score.t = "int" => r.team2_score = match_data.team2_score

\* C27: after any sequence of save_detailed_match calls the detailed_matches
\* table holds at most one row per match_id, and that row carries the values
\* of the most recent successful save for that match_id; a call whose record
\* lacks a required field (match_id, team1_name, team2_name, team1_score,
\* team2_score missing or None) returns False and leaves the table unchanged.
C27_Upsert ==
    /\ \A r1, r2 \in db.rows : r1.match_id = r2.match_id => r1 = r2
    /\ \A r \in db.rows :
          /\ SavedFor(r.match_id) # {}
          /\ Carried(r, saves[Latest(SavedFor(r.match_id))].match_data)
    /\ \A k \in 1..Len(saves) :
          /\ saves[k].ret => \E r \in db.rows : r.match_id = saves[k].match_data.match_id
          /\ Lacking(saves[k].match_data) =>
                 ~saves[k].ret /\ saves[k].after = saves[k].before

\* Two successful saves for one match_id with different scores, then a save
\* that lacks a field: one row, with the score of the second save.
C27_Witness ==
    /\ Len(saves) = 3
    /\ saves[1].ret /\ saves[2].ret /\ ~saves[3].ret
    /\ saves[1].match_data.match_id = saves[2].match_data.match_id
    /\ saves[1].match_data.team1_score = PyInt(1)
    /\ saves[2].match_data.team1_score = PyInt(2)
    /\ Lacking(saves[3].match_data)
    /\ \E r \in db.rows : db.rows = {r} /\ r.team1_score = PyInt(2)

\* A save with every required field that fails all the same: its score text
\* makes _safe_int raise; the table is left as it was.
SaveRefusedForScore ==
    \E k \in 1..Len(saves) :
        /\ ~Lacking(saves[k].match_data)
        /\ ~saves[k].ret
        /\ saves[k].after = saves[k].before

-----------------------------------------------------------------------------
\* Claims on the delays of scrape_multiple_matches (specification SpecBatch).

\* The retrievals and delays of the passes so far, in their order.
RECURSIVE EventsOf(_)
EventsOf(its) ==
    IF its = <<>> THEN <<>> ELSE its[1].events \o EventsOf(Tail(its))

\* C28: in scrape_multiple_matches a delay occurs between the page retrieval
\* for a URL and the page retrieval for the next URL: at no point of an
\* execution have two retrievals happened without a delay between them,
\* whether the earlier scrape succeeded or failed.
C28_DelayBetweenRetrievals ==
    \A i, j \in 1..Len(EventsOf(iterations)) :
        (i < j /\ EventsOf(iterations)[i] = "retrieve" /\ EventsOf(iterations)[j] = "retrieve")
            => \E k \in (i + 1)..(j - 1) : EventsOf(iterations)[k] = "sleep"

\* A run whose first scrape failed (the page could not be rendered) and whose
\* second scrape gave a record: the second retrieval came after a delay.
C28_Witness ==
    /\ Len(iterations) >= 2
    /\ iterations[1].result = <<EmptyDict>>
    /\ iterations[2].result # <<>> /\ iterations[2].result # <<EmptyDict>>
    /\ SubSeq(EventsOf(iterations), 1, 4) = <<"retrieve", "sleep", "retrieve", "sleep">>

\* A run in which a callback raised between two scrapes: that pass adds no
\* retrieval and no delay.
PassWithoutRetrieval ==
    /\ Len(iterations) = 3
    /\ iterations[2].raised
    /\ EventsOf(iterations) = <<"retrieve", "sleep", "retrieve", "sleep">>

-----------------------------------------------------------------------------
\* C29: where the combined value of a stat cell is read from.

\* An element that carries the attack marker or the defense marker.
CarriesSide(el) == "mod-t" \in Range(el.cls) \/ "mod-ct" \in Range(el.cls)

HasText(found) == found # <<>> /\ ~StillMissing(GetText(found[1]))

HoldsSide(el) == Find(el, ModT) # <<>> \/ Find(el, ModCt) # <<>>

\* The element whose text the four strategies leave in stat_value_all_sides:
\* the first of them, in the order tried, that yields a text other than ""
\* and "N/A"; <<>> when the value is left missing.
ReadFromSq(stat_cell, sq) ==
    IF HasText(sq) /\ ~HoldsSide(sq[1]) THEN sq
    ELSE IF ~HoldsSide(stat_cell) /\ HasText(<<stat_cell>>) THEN <<stat_cell>>
    ELSE <<>>

AllSidesReadFrom(stat_cell) ==
    IF HasText(Find(stat_cell, SideBoth)) THEN Find(stat_cell, SideBoth)
    ELSE IF HasText(Find(stat_cell, ModBoth)) THEN Find(stat_cell, ModBoth)
    ELSE ReadFromSq(stat_cell, Find(stat_cell, StatsSq))

\* C29: whenever the combined (`all`) output of a stat cell is not the
\* sentinel, the element it was read from carries neither the attack marker
\* nor the defense marker, also when one element carries both the
\* statistic-square class and a side marker.
C29_AllNotFromSideNode ==
    cellOut.all # NA =>
        /\ AllSidesReadFrom(cell) # <<>>
        /\ ~CarriesSide(AllSidesReadFrom(cell)[1])

\* A cell whose combined value is the text of a span that carries the
\* statistic-square class and the attack marker at once.
C29_ReadFromSideNode ==
    /\ cellOut.all # NA
    /\ AllSidesReadFrom(cell) # <<>>
    /\ AllSidesReadFrom(cell)[1].cls = <<"stats-sq", "mod-t">>
    /\ cellOut.all = cellOut.attack

\* The element named as the source is the one whose text is the output.
AllIsTextOfSource ==
    IF AllSidesReadFrom(cell) = <<>> THEN cellOut.all = NA
    ELSE cellOut.all = GetText(AllSidesReadFrom(cell)[1])

\* The combined value is read from a side-marked element only through the
\* statistic-square class of that element.
SideNodeReadOnlyAsSquare ==
    (AllSidesReadFrom(cell) # <<>> /\ CarriesSide(AllSidesReadFrom(cell)[1]))
        => "stats-sq" \in Range(AllSidesReadFrom(cell)[1].cls)

-----------------------------------------------------------------------------
\* C30: the per-team collections of the Match records get_match_details
\* returns.

\* The calls that returned a Match record.
Records == {k \in 1..Len(results) : DOMAIN results[k].out.val # {}}

Team1Name(k) == results[k].out.val.teams.team1.name
Team2Name(k) == results[k].out.val.teams.team2.name

\* Two separate collections, keyed exactly by the two reported names.
TwoCollections(k, player_stats) ==
    /\ DOMAIN player_stats = {Team1Name(k), Team2Name(k)}
    /\ Cardinality(DOMAIN player_stats) = 2

\* The rows of the first two tables of the page's first "all" section.
OverallRows ==
    IF AllSections(page.sections) = <<>> THEN <<0, 0>>
    ELSE <<IF Len(AllSections(page.sections)[1].tables) < 1 THEN 0
           ELSE Len(AllSections(page.sections)[1].tables[1].rows),
           IF Len(AllSections(page.sections)[1].tables) < 2 THEN 0
           ELSE Len(AllSections(page.sections)[1].tables[2].rows)>>

\* C30: in every Match record returned, the overall stats and the
\* player_stats of every map entry hold two separate collections, one per
\* team, keyed exactly by teams.team1.name and teams.team2.name; the rows of
\* the first table are under team1's key and those of the second under
\* team2's, neither overwriting the other, also when both names are the same
\* text.
C30_TwoCollections ==
    \A k \in Records :
        /\ TwoCollections(k, results[k].out.val.overall_player_stats)
        /\ Len(results[k].out.val.overall_player_stats[Team1Name(k)]) = OverallRows[1]
        /\ Len(results[k].out.val.overall_player_stats[Team2Name(k)]) = OverallRows[2]
        /\ \A m \in 1..Len(results[k].out.val.maps) :
              TwoCollections(k, results[k].out.val.maps[m].player_stats)

\* A record of a page without team names: both names are 'N/A', the overall
\* stats and a map's player_stats each have the one key 'N/A', and of the
\* two one-row tables of the "all" section one record is left.
C30_OneCollection ==
    \E k \in Records :
        /\ Team1Name(k) = NA /\ Team2Name(k) = NA
        /\ OverallRows = <<1, 1>>
        /\ DOMAIN results[k].out.val.overall_player_stats = {NA}
        /\ Len(results[k].out.val.overall_player_stats[NA]) = 1
        /\ results[k].out.val.maps # <<>>
        /\ \A m \in 1..Len(results[k].out.val.maps) :
              DOMAIN results[k].out.val.maps[m].player_stats = {NA}

\* What the code keeps of C30: a record whose two team names differ holds
\* two collections per section, with the rows of each table under its team.
TwoCollectionsWhenNamesDiffer ==
    \A k \in Records :
        Team1Name(k) # Team2Name(k) =>
            /\ TwoCollections(k, results[k].out.val.overall_player_stats)
            /\ Len(results[k].out.val.overall_player_stats[Team1Name(k)]) = OverallRows[1]
            /\ Len(results[k].out.val.overall_player_stats[Team2Name(k)]) = OverallRows[2]
            /\ \A m \in 1..Len(results[k].out.val.maps) :
                  TwoCollections(k, results[k].out.val.maps[m].player_stats)

\* A record with two different names, one overall record per team and a map.
TwoTeamsKept ==
    \E k \in Records :
        /\ Team1Name(k) = TeamA /\ Team2Name(k) = TeamB
        /\ OverallRows = <<1, 1>>
        /\ results[k].out.val.maps # <<>>
====
